---- MODULE Spec2Model ----
(***************************************************************************)
(* Model of the C4 compiler and virtual machine of c4_rust_Alqattara       *)
(* (src/c4_rust_Alqattara/src/lib.rs): the struct C4, its virtual machine  *)
(* C4::run and the driver C4::compile_and_run.                             *)
(*                                                                         *)
(* Rust indexes Vec from 0; text and data are modelled as sequences and    *)
(* read through TextAt/DataAt, the stack as a function on 0..StackLen-1.   *)
(***************************************************************************)
EXTENDS Integers, Sequences, FiniteSets, TLC

(***************************************************************************)
(* enum Instruction: the discriminants of the opcodes.                     *)
(***************************************************************************)
LEA == 0
IMM == 1
JMP == 2
JSR == 3
BZ == 4
BNZ == 5
ENT == 6
ADJ == 7
LEV == 8
LI == 9
LC == 10
SI == 11
SC == 12
PUSH == 13
OR == 14
XOR == 15
AND == 16
EQ == 17
NE == 18
LT == 19
GT == 20
LE == 21
GE == 22
SHL == 23
SHR == 24
ADD == 25
SUB == 26
MUL == 27
DIV == 28
MOD == 29
OPEN == 30
READ == 31
CLOS == 32
PRINTF == 33
MALLOC == 34
MSET == 35
MCMP == 36
EXIT == 37
FLD == 38
FST == 39
FADD == 40
FSUB == 41
FMUL == 42
FDIV == 43

(***************************************************************************)
(* Bounds of the model.                                                    *)
(*   POOL_SIZE  stands for the pool of 256 * 1024 words: the stack holds   *)
(*              POOL_SIZE + 3 words and run starts with bp = sp = POOL_SIZE*)
(*   max_cycles stands for the cycle ceiling of 1,000,000 dispatches       *)
(*   MaxWord    is the largest magnitude of a word the model computes      *)
(*              with; a step whose result leaves -MaxWord..MaxWord ends    *)
(*              the modelled run with status "cutoff"                      *)
(***************************************************************************)
POOL_SIZE == 6
max_cycles == 120
MaxWord == 32767

\* The watchdog's window: stuck_count > 100 (a constant of run).
StuckLimit == 100

StackLen == POOL_SIZE + 3

\* enum TokenType (the tokens the compiler reads or stores)
TokenType_Num == 128
TokenType_Float == 257
TokenType_Fun == 258
TokenType_Sys == 259
TokenType_Glo == 260
TokenType_Loc == 261
TokenType_Id == 262
TokenType_Char == 263
TokenType_Else == 264
TokenType_Enum == 265
TokenType_If == 266
TokenType_Int == 267
TokenType_Return == 268
TokenType_Sizeof == 269
TokenType_While == 270
TokenType_Lor == 273
TokenType_Lan == 274
TokenType_Eq == 278
TokenType_Ne == 279
TokenType_Le == 282
TokenType_Ge == 283
TokenType_Shl == 284
TokenType_Shr == 285
TokenType_Mul == 288
TokenType_Inc == 291
TokenType_Dec == 292

\* The types
CHAR == 0
INT == 1
PTR == 2
FLOAT == 3

\* The precedence levels expression is called with
Assign == 0
Inc == 20

\* The loop limits of function() and program()
max_loops == 100
max_statements == 1000
max_iterations == 10000


VARIABLES
    text,             \* C4.text: the text segment
    data,             \* C4.data: the data segment
    stack,            \* C4.stack
    pc, bp, sp, ax,   \* the VM registers
    cycle,            \* C4.cycle
    last_pc,          \* run's local last_pc
    stuck_count,      \* run's local stuck_count
    captured_output,  \* C4.captured_output, a sequence of bytes
    status,           \* where the call is: "ready", "running", "returned",
                      \* "panicked" (a Rust panic), "exited" (process::exit(1)),
                      \* "cutoff" (a word left the modelled range), "compiling"
                      \* (in the loop of program()), "compiled" (after it)
    exit_code,        \* the value run / compile_and_run returned
    entry,            \* run's argument entry
    frames,           \* history: <<sp, bp>> before each ENT not yet left
    calls,            \* history: return index of each JSR not yet left
    source,           \* compile_and_run's argument source, a sequence of bytes
    src, pos, line,   \* C4.src, C4.pos, C4.line
    token, token_val, \* C4.token, C4.token_val
    symbols,          \* C4.symbols
    current_id,       \* C4.current_id
    expr_type,        \* C4.expr_type
    index_of_bp,      \* C4.index_of_bp
    prev_pos,         \* program()'s local prev_pos
    iteration_count   \* program()'s local iteration_count

compiler_vars == <<source, src, pos, line, token, token_val, symbols, current_id,
                   expr_type, index_of_bp, prev_pos, iteration_count>>

vars == <<text, data, stack, pc, bp, sp, ax, cycle, last_pc, stuck_count,
          captured_output, status, exit_code, entry, frames, calls, compiler_vars>>

TextAt(i) == text[i + 1]
DataAt(i) == data[i + 1]
TextLen == Len(text)

InStack(i) == i >= 0 /\ i < StackLen
Fits(v) == v >= -MaxWord /\ v <= MaxWord

(***************************************************************************)
(* Integer operations of i32 as Rust computes them.                        *)
(***************************************************************************)
Abs(x) == IF x < 0 THEN -x ELSE x

\* i32 `/` truncates toward zero.
TruncDiv(a, b) ==
    IF (a >= 0) = (b > 0) THEN Abs(a) \div Abs(b) ELSE -(Abs(a) \div Abs(b))

\* i32 `%`: the remainder has the sign of the dividend.
TruncRem(a, b) == a - b * TruncDiv(a, b)

RECURSIVE Pow2(_)
Pow2(k) == IF k <= 0 THEN 1 ELSE 2 * Pow2(k - 1)

\* Two's-complement bitwise operations on sign-extended integers.
RECURSIVE BitAnd(_, _)
BitAnd(a, b) ==
    IF a = 0 \/ b = 0 THEN 0
    ELSE IF a = -1 THEN b
    ELSE IF b = -1 THEN a
    ELSE 2 * BitAnd(a \div 2, b \div 2) + (IF a % 2 = 1 /\ b % 2 = 1 THEN 1 ELSE 0)

RECURSIVE BitOr(_, _)
BitOr(a, b) ==
    IF a = -1 \/ b = -1 THEN -1
    ELSE IF a = 0 THEN b
    ELSE IF b = 0 THEN a
    ELSE 2 * BitOr(a \div 2, b \div 2) + (IF a % 2 = 1 \/ b % 2 = 1 THEN 1 ELSE 0)

RECURSIVE BitXor(_, _)
BitXor(a, b) ==
    IF a = 0 THEN b
    ELSE IF b = 0 THEN a
    ELSE IF a = -1 /\ b = -1 THEN 0
    ELSE 2 * BitXor(a \div 2, b \div 2) + (IF (a % 2) # (b % 2) THEN 1 ELSE 0)

Bool(b) == IF b THEN 1 ELSE 0

\* Results of an i32 operation: a word, a Rust panic, or a value outside the
\* modelled range of words.
Word(v) == [kind |-> "word", val |-> v]
PanicResult == [kind |-> "panic", val |-> 0]
CutoffResult == [kind |-> "cutoff", val |-> 0]

\* `+`, `-`, `*` on i32: overflow needs a magnitude above MaxWord.
Checked(v) == IF Fits(v) THEN Word(v) ELSE CutoffResult

\* The shift amounts a build can use for `x << n` / `x >> n`: n itself when
\* 0 <= n < 32; otherwise a debug build panics (-1 here) and a release build
\* masks the amount to its low five bits.
ShiftAmounts(n) == IF n >= 0 /\ n < 32 THEN {n} ELSE {-1, n % 32}

\* a << k on i32 for 0 <= k < 32.
ShlWord(a, k) ==
    IF a = 0 THEN Word(0)
    ELSE IF k > 15 THEN CutoffResult
    ELSE Checked(a * Pow2(k))

\* a >> k on i32 (arithmetic shift) for 0 <= k < 32.
ShrWord(a, k) ==
    IF k > 15 THEN Word(IF a < 0 THEN -1 ELSE 0) ELSE Word(a \div Pow2(k))

ArithOps == {OR, XOR, AND, EQ, NE, LT, GT, LE, GE, SHL, SHR, ADD, SUB, MUL, DIV, MOD}

\* The results a build can produce for `lhs op rhs` (lhs = stack[sp + 1],
\* rhs = ax).  DIV and MOD are only evaluated for rhs # 0.
AluResults(op, lhs, rhs) ==
    CASE op = OR  -> {Word(BitOr(lhs, rhs))}
      [] op = XOR -> {Word(BitXor(lhs, rhs))}
      [] op = AND -> {Word(BitAnd(lhs, rhs))}
      [] op = EQ  -> {Word(Bool(lhs = rhs))}
      [] op = NE  -> {Word(Bool(lhs # rhs))}
      [] op = LT  -> {Word(Bool(lhs < rhs))}
      [] op = GT  -> {Word(Bool(lhs > rhs))}
      [] op = LE  -> {Word(Bool(lhs <= rhs))}
      [] op = GE  -> {Word(Bool(lhs >= rhs))}
      [] op = SHL -> {IF k = -1 THEN PanicResult ELSE ShlWord(lhs, k) : k \in ShiftAmounts(rhs)}
      [] op = SHR -> {IF k = -1 THEN PanicResult ELSE ShrWord(lhs, k) : k \in ShiftAmounts(rhs)}
      [] op = ADD -> {Checked(lhs + rhs)}
      [] op = SUB -> {Checked(lhs - rhs)}
      [] op = MUL -> {Checked(lhs * rhs)}
      [] op = DIV -> {Word(TruncDiv(lhs, rhs))}
      [] op = MOD -> {Word(TruncRem(lhs, rhs))}

(***************************************************************************)
(* The machine a dispatch works on, as a record, and the ways it ends.     *)
(***************************************************************************)
Machine ==
    [pc |-> pc, bp |-> bp, sp |-> sp, ax |-> ax, stack |-> stack,
     out |-> captured_output, status |-> "running", exit_code |-> 0]

\* A return that clears the captured output.
Return_ClearsOutput(m, code) ==
    [m EXCEPT !.status = "returned", !.exit_code = code, !.out = <<>>]

Return(m, code) == [m EXCEPT !.status = "returned", !.exit_code = code]
Panic(m) == [m EXCEPT !.status = "panicked"]
Cutoff(m) == [m EXCEPT !.status = "cutoff"]

\* A machine whose registers left the modelled range of words is cut off.
Ranged(m) ==
    IF Fits(m.pc) /\ Fits(m.bp) /\ Fits(m.sp) /\ Fits(m.ax) THEN m ELSE Cutoff(m)

(***************************************************************************)
(* The arms of run's `match op`.  m is the machine after the fetch, so     *)
(* m.pc is the index of the word after the opcode.  Each arm yields the    *)
(* set of machines a build can produce.                                    *)
(***************************************************************************)
OpLEA(m) ==
    IF m.pc < TextLen
    THEN {Ranged([m EXCEPT !.ax = m.bp + TextAt(m.pc), !.pc = m.pc + 1])}
    ELSE {Return(m, -1)}

OpIMM(m) ==
    IF m.pc < TextLen
    THEN {[m EXCEPT !.ax = TextAt(m.pc), !.pc = m.pc + 1]}
    ELSE {Return(m, -1)}

OpJMP(m) ==
    IF m.pc < TextLen
    THEN {[m EXCEPT !.pc = TextAt(m.pc)]}
    ELSE {Return(m, -1)}

OpJSR(m) ==
    IF InStack(m.sp) /\ m.pc < TextLen
    THEN {[m EXCEPT !.stack[m.sp] = m.pc + 1, !.sp = m.sp - 1, !.pc = TextAt(m.pc)]}
    ELSE {Return(m, -1)}

OpBZ(m) ==
    IF m.pc < TextLen
    THEN {[m EXCEPT !.pc = IF m.ax = 0 THEN TextAt(m.pc) ELSE m.pc + 1]}
    ELSE {Return(m, -1)}

OpBNZ(m) ==
    IF m.pc < TextLen
    THEN {[m EXCEPT !.pc = IF m.ax # 0 THEN TextAt(m.pc) ELSE m.pc + 1]}
    ELSE {Return(m, -1)}

\* The old bp is stored and bp moved before the space for locals is checked.
OpENT(m) ==
    IF InStack(m.sp) /\ m.pc < TextLen
    THEN LET entered == [m EXCEPT !.stack[m.sp] = m.bp, !.sp = m.sp - 1, !.bp = m.sp - 1]
             local_space == TextAt(m.pc)
         IN  IF entered.sp - local_space < 0
             THEN {Return(entered, -1)}
             ELSE {Ranged([entered EXCEPT !.sp = entered.sp - local_space, !.pc = m.pc + 1])}
    ELSE {Return(m, -1)}

OpADJ(m) ==
    IF m.pc < TextLen
    THEN LET adj == TextAt(m.pc)
         IN  IF m.sp + adj < 0 \/ m.sp + adj >= StackLen
             THEN {Return(m, -1)}
             ELSE {[m EXCEPT !.sp = m.sp + adj, !.pc = m.pc + 1]}
    ELSE {Return(m, -1)}

\* sp <- bp; bp <- stack[bp + 1]; pc <- stack[bp + 2] with the NEW bp, an
\* unchecked Vec index: out of 0..StackLen-1 it panics.  When the guard
\* fails run returns ax.
OpLEV(m) ==
    IF InStack(m.sp) /\ m.bp >= 0 /\ m.bp < StackLen
       /\ (m.bp + 1) < StackLen /\ (m.bp + 2) < StackLen
    THEN LET new_bp == m.stack[m.bp + 1]
             left == [m EXCEPT !.sp = m.bp, !.bp = new_bp]
         IN  IF ~InStack(new_bp + 2)
             THEN {Panic(left)}
             ELSE LET new_pc == m.stack[new_bp + 2]
                      jumped == [left EXCEPT !.pc = new_pc]
                  IN  IF new_pc < 0 \/ new_pc >= TextLen
                      THEN {Return(jumped, m.ax)}
                      ELSE {jumped}
    ELSE {Return(m, m.ax)}

OpEXIT(m) == {Return(m, m.ax)}

OpLI(m) ==
    IF InStack(m.ax)
    THEN {[m EXCEPT !.ax = m.stack[m.ax]]}
    ELSE {Return(m, -1)}

OpLC(m) ==
    IF InStack(m.ax)
    THEN {[m EXCEPT !.ax = m.stack[m.ax] % 256]}
    ELSE {Return(m, -1)}

OpSI(m) ==
    IF m.sp >= 0 /\ m.sp + 1 < StackLen
    THEN LET addr == m.stack[m.sp + 1]
         IN  IF InStack(addr)
             THEN {[m EXCEPT !.stack[addr] = m.ax, !.sp = m.sp + 1]}
             ELSE {Return(m, -1)}
    ELSE {Return(m, -1)}

\* (stack[addr] & !0xFF) | (ax & 0xFF)
OpSC(m) ==
    IF m.sp >= 0 /\ m.sp + 1 < StackLen
    THEN LET addr == m.stack[m.sp + 1]
         IN  IF InStack(addr)
             THEN {[m EXCEPT !.stack[addr] =
                               (m.stack[addr] - (m.stack[addr] % 256)) + (m.ax % 256),
                             !.sp = m.sp + 1]}
             ELSE {Return(m, -1)}
    ELSE {Return(m, -1)}

OpPUSH(m) ==
    IF InStack(m.sp)
    THEN {[m EXCEPT !.stack[m.sp] = m.ax, !.sp = m.sp - 1]}
    ELSE {Return(m, -1)}

\* OR .. MOD: ax <- stack[sp + 1] op ax; sp <- sp + 1.
\* OpArith with the operand left on the stack: sp is not incremented.
OpArith_KeepsOperand(m, op) ==
    IF m.sp >= 0 /\ m.sp + 1 < StackLen
    THEN IF op \in {DIV, MOD} /\ m.ax = 0
         THEN {Return(m, -1)}
         ELSE {CASE r.kind = "word" -> [m EXCEPT !.ax = r.val]
                 [] r.kind = "panic" -> Panic(m)
                 [] r.kind = "cutoff" -> Cutoff(m)
               : r \in AluResults(op, m.stack[m.sp + 1], m.ax)}
    ELSE {Return(m, -1)}

\* OpArith without the test for a zero divisor: the division panics.
OpArith_NoZeroTest(m, op) ==
    IF m.sp >= 0 /\ m.sp + 1 < StackLen
    THEN IF op \in {DIV, MOD} /\ m.ax = 0
         THEN {Panic(m)}
         ELSE {CASE r.kind = "word" -> [m EXCEPT !.ax = r.val, !.sp = m.sp + 1]
                 [] r.kind = "panic" -> Panic(m)
                 [] r.kind = "cutoff" -> Cutoff(m)
               : r \in AluResults(op, m.stack[m.sp + 1], m.ax)}
    ELSE {Return(m, -1)}

OpArith(m, op) ==
    IF m.sp >= 0 /\ m.sp + 1 < StackLen
    THEN IF op \in {DIV, MOD} /\ m.ax = 0
         THEN {Return(m, -1)}
         ELSE {CASE r.kind = "word" -> [m EXCEPT !.ax = r.val, !.sp = m.sp + 1]
                 [] r.kind = "panic" -> Panic(m)
                 [] r.kind = "cutoff" -> Cutoff(m)
               : r \in AluResults(op, m.stack[m.sp + 1], m.ax)}
    ELSE {Return(m, -1)}

\* The bytes of the format string at data[fmt_ptr..], up to the first 0.
RECURSIVE FormatBytes(_)
FormatBytes(i) ==
    IF i < Len(data) /\ DataAt(i) # 0
    THEN <<DataAt(i) % 256>> \o FormatBytes(i + 1)
    ELSE <<>>

OpPRINTF(m) ==
    IF m.sp >= 0 /\ m.sp + 1 < StackLen
    THEN LET fmt_ptr == m.stack[m.sp + 1]
         IN  IF fmt_ptr >= 0 /\ fmt_ptr < Len(data)
             THEN {[m EXCEPT !.out = m.out \o FormatBytes(fmt_ptr), !.sp = m.sp + 1]}
             ELSE {Return(m, -1)}
    ELSE {Return(m, -1)}

OpUnknown(m) == {Return(m, -1)}

\* match op { ... }
Execute(op, m) ==
    CASE op = LEA -> OpLEA(m)
      [] op = IMM -> OpIMM(m)
      [] op = JMP -> OpJMP(m)
      [] op = JSR -> OpJSR(m)
      [] op = BZ -> OpBZ(m)
      [] op = BNZ -> OpBNZ(m)
      [] op = ENT -> OpENT(m)
      [] op = ADJ -> OpADJ(m)
      [] op = LEV -> OpLEV(m)
      [] op = EXIT -> OpEXIT(m)
      [] op = LI -> OpLI(m)
      [] op = LC -> OpLC(m)
      [] op = SI -> OpSI(m)
      [] op = SC -> OpSC(m)
      [] op = PUSH -> OpPUSH(m)
      [] op \in ArithOps -> OpArith(m, op)
      [] op = PRINTF -> OpPRINTF(m)
      [] OTHER -> OpUnknown(m)

(***************************************************************************)
(* The compiler.  Its operations are operators from the compiler's fields   *)
(* (a record c) to the fields after the call.  c.halt is "none" while the   *)
(* process runs, "exit" once process::exit(1) was called, "panic" after a   *)
(* Rust panic and "cutoff" when a value left the modelled range; a halted   *)
(* compiler executes nothing more.  Source text is a sequence of bytes.     *)
(***************************************************************************)
Compiler ==
    [src |-> src, pos |-> pos, line |-> line, token |-> token,
     token_val |-> token_val, symbols |-> symbols, text |-> text, data |-> data,
     current_id |-> current_id, expr_type |-> expr_type,
     index_of_bp |-> index_of_bp, halt |-> "none"]

\* F applied to the value v: `let v = ...;` followed by the code F.
Then(v, F(_)) == F(v)

Halt(c, how) == IF c.halt = "none" THEN [c EXCEPT !.halt = how] ELSE c

\* self.src[i]
SrcAt(c, i) == c.src[i + 1]
SrcLen(c) == Len(c.src)
\* pos < len && src[pos] == ch
SrcIs(c, i, ch) == i < SrcLen(c) /\ SrcAt(c, i) = ch

\* u8::is_ascii_digit, is_ascii_alphabetic, is_ascii_alphanumeric,
\* is_ascii_whitespace (space, \t, \n, form feed, \r), is_ascii_punctuation
is_ascii_digit(ch) == ch >= 48 /\ ch <= 57
is_ascii_alphabetic(ch) == (ch >= 65 /\ ch <= 90) \/ (ch >= 97 /\ ch <= 122)
is_ascii_alphanumeric(ch) == is_ascii_digit(ch) \/ is_ascii_alphabetic(ch)
is_ascii_whitespace(ch) == ch \in {32, 9, 10, 12, 13}

\* The index of the next '\n' at or after i, or the length of the source.
RECURSIVE LineEnd(_, _)
LineEnd(c, i) ==
    IF i < SrcLen(c) /\ SrcAt(c, i) # 10 THEN LineEnd(c, i + 1) ELSE i

\* The scan of a block comment from index i (after its opening): stops at the
\* closing "*/" or when fewer than two bytes remain, counting the lines.
RECURSIVE CommentEnd(_, _)
CommentEnd(c, i) ==
    IF i + 1 < SrcLen(c) /\ ~(SrcAt(c, i) = 42 /\ SrcAt(c, i + 1) = 47)
    THEN CommentEnd(IF SrcAt(c, i) = 10 THEN [c EXCEPT !.line = c.line + 1] ELSE c, i + 1)
    ELSE [c EXCEPT !.pos = IF i + 1 < SrcLen(c) THEN i + 2 ELSE i]

\* The loop that skips white space, '#' lines and comments.
RECURSIVE SkipBlanks(_)
SkipBlanks(c) ==
    IF c.pos >= SrcLen(c) THEN c
    ELSE Then(SrcAt(c, c.pos), LAMBDA ch :
             IF ch = 10
             THEN SkipBlanks([c EXCEPT !.line = c.line + 1, !.pos = c.pos + 1])
             ELSE IF ch = 35 \/ (ch = 47 /\ SrcIs(c, c.pos + 1, 47))
             THEN SkipBlanks([c EXCEPT !.pos = LineEnd(c, c.pos)])
             ELSE IF ch = 47 /\ SrcIs(c, c.pos + 1, 42)
             THEN SkipBlanks(CommentEnd(c, c.pos + 2))
             ELSE IF is_ascii_whitespace(ch)
             THEN SkipBlanks([c EXCEPT !.pos = c.pos + 1])
             ELSE c)

\* The end of the identifier that starts at index i.
RECURSIVE IdEnd(_, _)
IdEnd(c, i) ==
    IF i < SrcLen(c) /\ (is_ascii_alphanumeric(SrcAt(c, i)) \/ SrcAt(c, i) = 95)
    THEN IdEnd(c, i + 1) ELSE i

\* The keywords: "char", "else", "enum", "if", "int", "return", "sizeof",
\* "while" as bytes, each with its token.
Keywords ==
    { <<<<99, 104, 97, 114>>, TokenType_Char>>,
      <<<<101, 108, 115, 101>>, TokenType_Else>>,
      <<<<101, 110, 117, 109>>, TokenType_Enum>>,
      <<<<105, 102>>, TokenType_If>>,
      <<<<105, 110, 116>>, TokenType_Int>>,
      <<<<114, 101, 116, 117, 114, 110>>, TokenType_Return>>,
      <<<<115, 105, 122, 101, 111, 102>>, TokenType_Sizeof>>,
      <<<<119, 104, 105, 108, 101>>, TokenType_While>> }

\* The index (from 1) of the first symbol called name, 0 when there is none.
FindSymbol(c, name) ==
    Then({i \in 1..Len(c.symbols) : c.symbols[i].name = name}, LAMBDA hits :
        IF hits = {} THEN 0 ELSE CHOOSE i \in hits : \A j \in hits : i <= j)

\* An identifier or keyword at c.pos.
LexIdentifier(c) ==
    Then(IdEnd(c, c.pos), LAMBDA e :
    Then([c EXCEPT !.current_id = SubSeq(c.src, c.pos + 1, e), !.pos = e], LAMBDA c1 :
    Then({k \in Keywords : k[1] = c1.current_id}, LAMBDA kw :
    Then(FindSymbol(c, c1.current_id), LAMBDA s :
        IF kw # {} THEN [c1 EXCEPT !.token = (CHOOSE k \in kw : TRUE)[2]]
        ELSE IF s # 0
        THEN [c1 EXCEPT !.token = c.symbols[s].token, !.token_val = c.symbols[s].value]
        ELSE [c1 EXCEPT !.token = TokenType_Id]))))

\* The value of a hexadecimal digit, -1 for any other byte.
HexValue(ch) ==
    IF ch >= 48 /\ ch <= 57 THEN ch - 48
    ELSE IF ch >= 97 /\ ch <= 102 THEN ch - 87
    ELSE IF ch >= 65 /\ ch <= 70 THEN ch - 55
    ELSE -1

\* The digits of a hexadecimal literal from c.pos, accumulated in token_val.
RECURSIVE LexHex(_)
LexHex(c) ==
    IF c.halt = "none" /\ c.pos < SrcLen(c) /\ HexValue(SrcAt(c, c.pos)) >= 0
    THEN Then(c.token_val * 16 + HexValue(SrcAt(c, c.pos)), LAMBDA v :
             IF Fits(v) THEN LexHex([c EXCEPT !.token_val = v, !.pos = c.pos + 1])
             ELSE Halt(c, "cutoff"))
    ELSE c

\* The loop over a decimal or float literal.  n is [c, seen_dot, digits]:
\* digits counts the digits pushed on buffer.
RECURSIVE LexDecimal(_)
LexDecimal(n) ==
    IF n.c.halt # "none" \/ n.c.pos >= SrcLen(n.c) THEN n
    ELSE Then(SrcAt(n.c, n.c.pos), LAMBDA ch :
         IF ch = 46 /\ ~n.seen_dot
         THEN LexDecimal([n EXCEPT !.seen_dot = TRUE, !.c.pos = n.c.pos + 1])
         ELSE IF is_ascii_digit(ch)
         THEN IF n.seen_dot
              THEN LexDecimal([n EXCEPT !.digits = n.digits + 1, !.c.pos = n.c.pos + 1])
              ELSE Then(n.c.token_val * 10 + (ch - 48), LAMBDA v :
                   IF Fits(v)
                   THEN LexDecimal([n EXCEPT !.digits = n.digits + 1,
                                             !.c.pos = n.c.pos + 1,
                                             !.c.token_val = v])
                   ELSE [n EXCEPT !.c = Halt(n.c, "cutoff")])
         ELSE n)

\* val.to_bits() of the literals 0.5, 1.5 and 2.0 as <<low word, high word>>;
\* <<>> for any other literal, which the model does not convert.
F64Bits(buffer) ==
    IF buffer = <<48, 46, 53>> THEN <<0, 1071644672>>
    ELSE IF buffer = <<49, 46, 53>> THEN <<0, 1073217536>>
    ELSE IF buffer = <<50, 46, 48>> THEN <<0, 1073741824>>
    ELSE <<>>

new_float_constant(c, bits) ==
    [c EXCEPT !.data = c.data \o bits, !.expr_type = FLOAT, !.token_val = Len(c.data)]

\* A number at c.pos: an optional '-', then a hexadecimal, decimal or float
\* literal.
LexNumber(c) ==
    Then(SrcAt(c, c.pos) = 45, LAMBDA neg :
    Then(IF neg THEN [c EXCEPT !.pos = c.pos + 1] ELSE c, LAMBDA c1 :
        IF SrcAt(c1, c1.pos) = 48 /\ (SrcIs(c1, c1.pos + 1, 120) \/ SrcIs(c1, c1.pos + 1, 88))
        THEN [LexHex([c1 EXCEPT !.pos = c1.pos + 2, !.token_val = 0])
                 EXCEPT !.token = TokenType_Num]
        ELSE Then(LexDecimal([c |-> [c1 EXCEPT !.token_val = 0],
                              seen_dot |-> FALSE, digits |-> 0]), LAMBDA n :
             Then(F64Bits(SubSeq(c.src, c.pos + 1, n.c.pos)), LAMBDA bits :
                 IF n.c.halt # "none" THEN n.c
                 ELSE IF n.seen_dot
                 THEN IF n.digits = 0 THEN Halt(n.c, "exit")
                      ELSE IF bits = <<>> THEN Halt(n.c, "cutoff")
                      ELSE [new_float_constant(n.c, bits) EXCEPT !.token = TokenType_Float]
                 ELSE [n.c EXCEPT !.token = TokenType_Num,
                                  !.token_val = IF neg THEN -n.c.token_val
                                                ELSE n.c.token_val]))))

\* The byte an escape sequence \ch stands for.
Escape(ch) ==
    IF ch = 110 THEN 10
    ELSE IF ch = 116 THEN 9
    ELSE IF ch = 114 THEN 13
    ELSE IF ch = 48 THEN 0
    ELSE ch

\* A character literal; c.pos is at the opening quote.
LexChar(c) ==
    Then(SrcIs(c, c.pos + 1, 92), LAMBDA esc :
    Then(IF esc THEN c.pos + 2 ELSE c.pos + 1, LAMBDA q :
    Then([c EXCEPT !.token_val = IF q < SrcLen(c)
                                 THEN (IF esc THEN Escape(SrcAt(c, q)) ELSE SrcAt(c, q))
                                 ELSE c.token_val,
                   !.pos = q + 1], LAMBDA c1 :
        IF SrcIs(c1, c1.pos, 39)
        THEN [c1 EXCEPT !.pos = c1.pos + 1, !.token = TokenType_Num]
        ELSE Halt(c1, "exit"))))

\* The loop over the bytes of a string literal, pushed on the data segment.
RECURSIVE LexStringBody(_)
LexStringBody(c) ==
    IF c.pos < SrcLen(c) /\ SrcAt(c, c.pos) # 34
    THEN IF SrcAt(c, c.pos) = 92
         THEN LexStringBody([c EXCEPT
                !.data = IF c.pos + 1 < SrcLen(c)
                         THEN Append(c.data, Escape(SrcAt(c, c.pos + 1)))
                         ELSE c.data,
                !.pos = c.pos + 2])
         ELSE LexStringBody([c EXCEPT !.data = Append(c.data, SrcAt(c, c.pos)),
                                      !.pos = c.pos + 1])
    ELSE c

\* A string literal lexed without the 0 word after its bytes.
LexString_NoTerminator(c) ==
    Then(LexStringBody([c EXCEPT !.pos = c.pos + 1]), LAMBDA c1 :
        IF SrcIs(c1, c1.pos, 34)
        THEN [c1 EXCEPT !.pos = c1.pos + 1,
                        !.token = TokenType_Num, !.token_val = Len(c.data)]
        ELSE Halt(c1, "exit"))

\* A string literal; c.pos is at the opening quote.
LexString(c) ==
    Then(LexStringBody([c EXCEPT !.pos = c.pos + 1]), LAMBDA c1 :
        IF SrcIs(c1, c1.pos, 34)
        THEN [c1 EXCEPT !.pos = c1.pos + 1, !.data = Append(c1.data, 0),
                        !.token = TokenType_Num, !.token_val = Len(c.data)]
        ELSE Halt(c1, "exit"))

\* The operators of two bytes: <<first, second, token>>.
TwoByteOperators ==
    { <<61, 61, TokenType_Eq>>, <<43, 43, TokenType_Inc>>, <<45, 45, TokenType_Dec>>,
      <<33, 61, TokenType_Ne>>, <<60, 61, TokenType_Le>>, <<60, 60, TokenType_Shl>>,
      <<62, 61, TokenType_Ge>>, <<62, 62, TokenType_Shr>>, <<124, 124, TokenType_Lor>>,
      <<38, 38, TokenType_Lan>> }

\* An operator or any other byte made the token with the cursor left on it.
LexOperator_Stays(c) == [c EXCEPT !.token = SrcAt(c, c.pos)]

\* An operator or any other byte at c.pos: the token is the byte itself
\* unless it starts an operator of two bytes.
LexOperator(c) ==
    Then({o \in TwoByteOperators : o[1] = SrcAt(c, c.pos) /\ SrcIs(c, c.pos + 1, o[2])},
         LAMBDA two :
        IF two # {}
        THEN [c EXCEPT !.pos = c.pos + 2, !.token = (CHOOSE o \in two : TRUE)[3]]
        ELSE [c EXCEPT !.pos = c.pos + 1, !.token = SrcAt(c, c.pos)])

\* The token at c.pos, the blanks before it skipped; ch is the byte there.
LexToken(c, ch) ==
    IF is_ascii_alphabetic(ch) \/ ch = 95 THEN LexIdentifier(c)
    ELSE IF \/ is_ascii_digit(ch)
            \/ ch = 46
            \/ /\ ch = 45
               /\ c.pos + 1 < SrcLen(c)
               /\ \/ is_ascii_digit(SrcAt(c, c.pos + 1))
                  \/ SrcAt(c, c.pos + 1) = 46
    THEN LexNumber(c)
    ELSE IF ch = 39 THEN LexChar(c)
    ELSE IF ch = 34 THEN LexString(c)
    ELSE LexOperator(c)

\* next(): the lexical analyzer.
next(c) ==
    IF c.halt # "none" THEN c
    ELSE Then(SkipBlanks(c), LAMBDA c1 :
             IF c1.pos >= SrcLen(c1) THEN [c1 EXCEPT !.token = 0]
             ELSE LexToken(c1, SrcAt(c1, c1.pos)))

\* match_token(expected_token)
match_token(c, expected_token) ==
    IF c.halt # "none" THEN c
    ELSE IF c.token # expected_token THEN Halt(c, "exit")
    ELSE next(c)

\* self.text.push of each word of words.
Emit(c, words) == IF c.halt # "none" THEN c ELSE [c EXCEPT !.text = c.text \o words]

\* A Symbol (hash and the base fields are always 0).
Symbol(name, class, type_, value) ==
    [token |-> TokenType_Id, name |-> name, class |-> class, type_ |-> type_,
     value |-> value]

PushSymbol(c, s) == IF c.halt # "none" THEN c ELSE [c EXCEPT !.symbols = Append(c.symbols, s)]

\* `while self.token == t { self.next(); n += PTR }`: s is [c, n].
RECURSIVE PointerStars(_, _)
PointerStars(s, t) ==
    IF s.c.halt = "none" /\ s.c.token = t
    THEN PointerStars([c |-> next(s.c), n |-> s.n + PTR], t)
    ELSE s

\* INT for the token int, CHAR for any other.
BaseType(c) == IF c.token = TokenType_Int THEN INT ELSE CHAR

\* `(type *...)` after the opening parenthesis, in a cast and in sizeof:
\* [c, n] after the closing parenthesis, n the type.
TypeName(c) ==
    Then(PointerStars([c |-> next(c), n |-> BaseType(c)], TokenType_Mul), LAMBDA s :
        [c |-> match_token(s.c, 41), n |-> s.n])

\* PUSH; IMM 4 or 1; op: the step of ++ and --.
StepBy(c, op) ==
    Emit(c, <<PUSH, IMM, IF c.expr_type > PTR THEN 4 ELSE 1, op,
              IF c.expr_type = CHAR THEN SC ELSE SI>>)

\* c with expr_type t, unless c has stopped.
Typed(c, t) == IF c.halt # "none" THEN c ELSE [c EXCEPT !.expr_type = t]

\* expression(level).  Every arm of the match on the token returns, so the
\* code of the binary operators after the match is never executed and level
\* is not read; the i32 that expression returns is used by no caller.
RECURSIVE expression(_, _)
RECURSIVE CallArguments(_)

\* The loop over the arguments of a call: s is [c, arg_count].
CallArguments(s) ==
    IF s.c.halt # "none" \/ s.c.token = 41 THEN s
    ELSE Then(Emit(expression(s.c, Assign), <<PUSH>>), LAMBDA c1 :
             IF c1.halt # "none" \/ c1.token = 41
             THEN [c |-> c1, arg_count |-> s.arg_count + 1]
             ELSE CallArguments([c |-> match_token(c1, 44), arg_count |-> s.arg_count + 1]))

\* A call of sym, c at the opening parenthesis.
CallExpression(c, sym) ==
    Then(CallArguments([c |-> match_token(c, 40), arg_count |-> 0]), LAMBDA a :
        Typed(Emit(match_token(a.c, 41),
                   (IF sym.class = TokenType_Sys THEN <<sym.value>> ELSE <<JSR, sym.value>>)
                   \o (IF a.arg_count > 0 THEN <<ADJ, a.arg_count>> ELSE <<>>)),
              sym.type_))

\* The index of an array access, c after the closing bracket.
IndexExpression(c) ==
    IF c.halt # "none" THEN c
    ELSE IF c.expr_type < PTR THEN Halt(c, "exit")
    ELSE Emit([c EXCEPT !.expr_type = IF c.expr_type = CHAR + PTR THEN CHAR ELSE INT],
              (IF c.expr_type > PTR THEN <<PUSH, IMM, 4, MUL, ADD>> ELSE <<>>)
              \o <<IF c.expr_type = CHAR + PTR THEN LC ELSE LI>>)

\* A variable sym, c after its name.
VariableExpression(c, sym) ==
    IF sym.class \notin {TokenType_Loc, TokenType_Glo} THEN Halt(c, "exit")
    ELSE Then([Emit(c, IF sym.class = TokenType_Loc
                       THEN <<LEA, c.index_of_bp - sym.value>>
                       ELSE <<IMM, sym.value>>)
                  EXCEPT !.expr_type = sym.type_], LAMBDA c3 :
             IF c3.token # 91 THEN c3
             ELSE IndexExpression(match_token(expression(match_token(c3, 91), Assign), 93)))

\* The arm of an identifier whose symbol is symbols[i]: a call or a variable.
IdentifierExpression(c, i) ==
    Then(next(c), LAMBDA c1 :
        IF c1.halt # "none" THEN c1
        ELSE IF c1.token = 40 THEN CallExpression(c1, c.symbols[i])
        ELSE VariableExpression(c1, c.symbols[i]))

\* `(` type `)` expression: the cast, t the [c, n] of TypeName.
CastExpression(t) == Typed(expression(t.c, Inc), t.n)

\* `*` expression, c after the operand.
Dereference(c) ==
    IF c.halt # "none" THEN c
    ELSE IF c.expr_type < PTR THEN Halt(c, "exit")
    ELSE Emit([c EXCEPT !.expr_type = c.expr_type - PTR],
              <<IF c.expr_type - PTR = CHAR THEN LC ELSE LI>>)

\* `&` expression, c after the operand.
AddressOf(c) ==
    IF c.halt # "none" THEN c
    ELSE IF c.token \in {TokenType_Inc, TokenType_Dec} THEN Halt(c, "exit")
    ELSE [c EXCEPT !.expr_type = c.expr_type + PTR]

\* sizeof of the type t, the [c, n] of TypeName.
SizeofType(t) == Typed(Emit(t.c, <<IMM, IF t.n = CHAR THEN 1 ELSE 4>>), INT)

\* sizeof of an expression, c after the closing parenthesis.
SizeofValue(c) == Typed(Emit(c, <<IMM, IF c.expr_type = CHAR THEN 1 ELSE 4>>), INT)

\* The arm of `(`, c after the parenthesis: a cast or a parenthesised expression.
Parenthesised(c) ==
    IF c.halt # "none" THEN c
    ELSE IF c.token \in {TokenType_Int, TokenType_Char} THEN CastExpression(TypeName(c))
    ELSE match_token(expression(c, Assign), 41)

\* The arm of sizeof, c after `sizeof (`.
SizeofExpression(c) ==
    IF c.halt # "none" THEN c
    ELSE IF c.token \in {TokenType_Int, TokenType_Char} THEN SizeofType(TypeName(c))
    ELSE SizeofValue(match_token(expression(c, Assign), 41))

\* The arm of an identifier: exit(1) when the name is not in the symbol table.
NamedExpression(c, i) == IF i = 0 THEN Halt(c, "exit") ELSE IdentifierExpression(c, i)

expression(c, level) ==
    IF c.halt # "none" THEN c
    ELSE IF c.token = TokenType_Num THEN next([c EXCEPT !.expr_type = INT])
    ELSE IF c.token = TokenType_Float
    THEN next([Emit(c, <<IMM, c.token_val, FLD>>) EXCEPT !.expr_type = FLOAT])
    ELSE IF c.token = TokenType_Id THEN NamedExpression(c, FindSymbol(c, c.current_id))
    ELSE IF c.token = 40 THEN Parenthesised(match_token(c, 40))
    ELSE IF c.token = 42 THEN Dereference(expression(next(c), Inc))
    ELSE IF c.token = 38 THEN AddressOf(expression(next(c), Inc))
    ELSE IF c.token = 33
    THEN Typed(Emit(expression(next(c), Inc), <<PUSH, IMM, 0, EQ>>), INT)
    ELSE IF c.token = 126 THEN Emit(expression(next(c), Inc), <<PUSH, IMM, -1, XOR>>)
    ELSE IF c.token = 45 THEN Emit(expression(next(c), Inc), <<PUSH, IMM, 0, SUB>>)
    ELSE IF c.token = TokenType_Inc THEN StepBy(expression(next(c), Inc), ADD)
    ELSE IF c.token = TokenType_Dec THEN StepBy(expression(next(c), Inc), SUB)
    ELSE IF c.token = TokenType_Sizeof THEN SizeofExpression(match_token(next(c), 40))
    ELSE Halt(c, "exit")

\* A back-patch that writes the operand slot of the first instruction of the
\* text, whatever the index.
Patch_FirstOperand(c, i, v) == IF c.halt # "none" THEN c ELSE [c EXCEPT !.text[2] = v]

\* self.text[i] = v
Patch(c, i, v) == IF c.halt # "none" THEN c ELSE [c EXCEPT !.text[i + 1] = v]

\* statement()
RECURSIVE statement(_)
RECURSIVE BlockStatements(_)

\* `while self.token != '}' && self.token != 0 { self.statement() }`
BlockStatements(c) ==
    IF c.halt # "none" \/ c.token = 125 \/ c.token = 0 THEN c
    ELSE BlockStatements(statement(c))

\* if: c after the closing parenthesis of the condition, the BZ not yet emitted.
IfBody(c) ==
    Then(statement(Emit(c, <<BZ, 0>>)), LAMBDA c2 :
    Then(Patch(Emit(c2, <<JMP, 0>>), Len(c.text) + 1, Len(c2.text) + 2), LAMBDA c4 :
    Then(IF c4.token = TokenType_Else THEN statement(match_token(c4, TokenType_Else))
         ELSE c4, LAMBDA c5 :
        Patch(c5, Len(c2.text) + 1, Len(c5.text)))))

\* while: c after the closing parenthesis of the condition.
WhileBody(c, loop_start) ==
    Then(Emit(statement(Emit(c, <<BZ, 0>>)), <<JMP, loop_start>>), LAMBDA c3 :
        Patch(c3, Len(c.text) + 1, Len(c3.text)))

\* while: c after the keyword.
WhileStatement(c) ==
    WhileBody(match_token(expression(match_token(c, 40), Assign), 41), Len(c.text))

\* return: c after the keyword.
ReturnStatement(c) ==
    Emit(match_token(IF c.token # 59 THEN expression(c, Assign) ELSE Emit(c, <<IMM, 0>>),
                     59), <<LEV>>)

\* A block: c after its statements.
BlockEnd(c) ==
    IF c.halt # "none" THEN c
    ELSE IF c.token = 0 THEN Emit(c, <<IMM, 0, LEV>>)
    ELSE match_token(c, 125)

statement(c) ==
    IF c.halt # "none" THEN c
    ELSE IF c.token = TokenType_If
    THEN IfBody(match_token(expression(match_token(match_token(c, TokenType_If), 40),
                                       Assign), 41))
    ELSE IF c.token = TokenType_While THEN WhileStatement(match_token(c, TokenType_While))
    ELSE IF c.token = TokenType_Return THEN ReturnStatement(match_token(c, TokenType_Return))
    ELSE IF c.token = 123 THEN BlockEnd(BlockStatements(match_token(c, 123)))
    ELSE IF c.token = 59 THEN match_token(c, 59)
    ELSE match_token(expression(c, Assign), 59)

\* `type_ = INT or CHAR; next(); while token == '*' { next(); type_ += PTR }`:
\* [c, n] with n the type.
DeclaredType(c) == PointerStars([c |-> next(c), n |-> BaseType(c)], 42)

\* The loop over the parameters of function(): p is [c, param_count,
\* local_offset, loop_count, returned]; returned is set where the code
\* returns from function() inside the loop.
RECURSIVE Parameters(_)

\* One parameter, t the [c, n] of its type: the symbol, then `,` or the end.
Parameter(p, t) ==
    IF t.c.halt # "none" \/ t.c.token # TokenType_Id THEN [p EXCEPT !.c = t.c]
    ELSE Then([p EXCEPT !.c = next(PushSymbol(t.c, Symbol(t.c.current_id, TokenType_Loc,
                                                          t.n, p.param_count + 1))),
                        !.param_count = p.param_count + 1,
                        !.local_offset = p.local_offset + 4,
                        !.loop_count = p.loop_count + 1], LAMBDA q :
             IF q.c.halt # "none" \/ q.c.token = 41 \/ q.c.token # 44 THEN q
             ELSE Parameters([q EXCEPT !.c = next(q.c)]))

Parameters(p) ==
    IF p.c.halt # "none" \/ p.loop_count + 1 > max_loops THEN p
    ELSE IF p.c.token = 0 THEN [p EXCEPT !.returned = TRUE]
    ELSE Parameter(p, DeclaredType(p.c))

\* The loop over the declarations of locals: l is [c, local_var_count,
\* local_offset].
RECURSIVE Locals(_)

\* One local, t the [c, n] of its type: the symbol, then `;` or the end.
Local(l, t) ==
    IF t.c.halt # "none" \/ t.c.token # TokenType_Id THEN [l EXCEPT !.c = t.c]
    ELSE Then([l EXCEPT !.c = next(PushSymbol(t.c, Symbol(t.c.current_id, TokenType_Loc,
                                                          t.n, l.local_offset))),
                        !.local_var_count = l.local_var_count + 1,
                        !.local_offset = l.local_offset + 4], LAMBDA m :
             IF m.c.halt = "none" /\ m.c.token = 59
             THEN Locals([m EXCEPT !.c = next(m.c)])
             ELSE m)

Locals(l) ==
    IF l.c.halt # "none" \/ l.c.token \notin {TokenType_Int, TokenType_Char} THEN l
    ELSE Local(l, DeclaredType(l.c))

\* The loop over the statements of a function body: s is [c, stmt_count].
RECURSIVE BodyStatements(_)
BodyStatements(s) ==
    IF s.c.halt # "none" \/ s.c.token = 125 \/ s.c.token = 0
       \/ s.stmt_count >= max_statements
    THEN s
    ELSE BodyStatements([c |-> statement(s.c), stmt_count |-> s.stmt_count + 1])

\* The body of function(): l the [c, local_var_count, local_offset] after the
\* locals; the operand of ENT at function_entry + 1 is patched, the
\* statements are compiled and IMM 0; LEV is added when LEV is not the last word.
FunctionBody(l, function_entry) ==
    Then(BodyStatements([c |-> Patch(l.c, function_entry + 1, l.local_var_count * 4),
                         stmt_count |-> 0]).c, LAMBDA c5 :
    Then(IF c5.text[Len(c5.text)] # LEV THEN Emit(c5, <<IMM, 0, LEV>>) ELSE c5, LAMBDA c6 :
        IF c6.halt = "none" /\ c6.token = 125 THEN next(c6) ELSE c6))

\* function() after the parameters p: `)`, `{`, the locals and the body.
FunctionBlock(p, function_entry) ==
    IF p.c.halt # "none" \/ p.returned \/ p.c.token = 0 THEN p.c
    ELSE Then(next(p.c), LAMBDA c3 :
             IF c3.halt # "none" \/ c3.token # 123 THEN c3
             ELSE FunctionBody(Locals([c |-> next(c3), local_var_count |-> 0,
                                       local_offset |-> p.local_offset]),
                               function_entry))

\* function() from ENT 0 on, c2 after the opening parenthesis.
FunctionParameters(c2, function_entry) ==
    FunctionBlock(IF c2.token # 41
                  THEN Parameters([c |-> c2, param_count |-> 0, local_offset |-> 8,
                                   loop_count |-> 0, returned |-> FALSE])
                  ELSE [c |-> c2, param_count |-> 0, local_offset |-> 8,
                        loop_count |-> 0, returned |-> FALSE],
                  function_entry)

\* function() after the return type t: the name and `(`.
FunctionName(t) ==
    IF t.c.halt # "none" \/ t.c.token # TokenType_Id THEN t.c
    ELSE Then(next(t.c), LAMBDA c1 :
             IF c1.halt # "none" \/ c1.token # 40 THEN c1
             ELSE FunctionParameters(Emit(next(c1), <<ENT, 0>>), Len(c1.text)))

\* function()
function(c) == FunctionName(DeclaredType(c))

\* The name "main" as bytes.
MainName == <<109, 97, 105, 110>>

\* `while self.token != '}' && self.token != 0 { self.next() }`
RECURSIVE SkipToBrace(_)
SkipToBrace(c) ==
    IF c.halt # "none" \/ c.token = 125 \/ c.token = 0 THEN c ELSE SkipToBrace(next(c))

\* The arm of program() for main: the symbol, `(){`, the fixed code
\* IMM 42; LEV, and the tokens up to the first '}' skipped.
MainDefinition(c, var_type) ==
    Then(SkipToBrace(Emit(match_token(match_token(match_token(
             IF FindSymbol(c, MainName) = 0
             THEN PushSymbol(c, Symbol(MainName, TokenType_Fun, var_type, Len(c.text)))
             ELSE c, 40), 41), 123), <<IMM, 42, LEV>>)), LAMBDA c3 :
        IF c3.halt = "none" /\ c3.token = 125 THEN next(c3) ELSE c3)

\* The end of a global variable: c after the initialiser, if any.
GlobalEnd(c, name, var_type) ==
    Then(PushSymbol(c, Symbol(name, TokenType_Glo, var_type, Len(c.data) + 1)), LAMBDA c2 :
        IF c2.halt = "none" /\ c2.token = 59 THEN next(c2) ELSE c2)

\* The arm of program() for a global variable called name.
GlobalVariable(c, name, var_type) ==
    GlobalEnd(IF c.token = 61 THEN expression(next(c), Assign) ELSE c, name, var_type)

\* The arm of program() for a function other than main: c2 is back at the
\* name, the symbol is pushed unless known, and function() compiles.
FunctionDefinition(c2, var_type) ==
    function(IF FindSymbol(c2, c2.current_id) = 0
             THEN PushSymbol(c2, Symbol(c2.current_id, TokenType_Fun, var_type,
                                        Len(c2.text)))
             ELSE c2)

\* A declaration of program() after its type t.
Declarator(t) ==
    IF t.c.halt # "none" \/ t.c.token # TokenType_Id THEN t.c
    ELSE Then(next(t.c), LAMBDA c1 :
             IF c1.halt # "none" THEN c1
             ELSE IF c1.token = 40
             THEN IF t.c.current_id = MainName THEN MainDefinition(c1, t.n)
                  ELSE FunctionDefinition([c1 EXCEPT !.pos = t.c.pos, !.token = t.c.token,
                                                     !.current_id = t.c.current_id], t.n)
             ELSE GlobalVariable(c1, t.c.current_id, t.n))

\* One declaration of program(), c.token being int or char.
Declaration(c) == Declarator(DeclaredType(c))

\* A round of the loop of program() that leaves a token that is no type
\* where it is.
ProgramRound_NoSkip(g) ==
    IF g.c.pos = g.prev_pos /\ g.iteration_count + 1 > 1
    THEN IF g.c.pos + 1 >= SrcLen(g.c)
         THEN [c |-> [g.c EXCEPT !.pos = g.c.pos + 1], prev_pos |-> g.prev_pos,
               iteration_count |-> g.iteration_count + 1, broke |-> TRUE]
         ELSE Then(next([g.c EXCEPT !.pos = g.c.pos + 1]), LAMBDA c :
                  [c |-> c, prev_pos |-> c.pos,
                   iteration_count |-> g.iteration_count + 1, broke |-> FALSE])
    ELSE [c |-> IF g.c.token \notin {TokenType_Int, TokenType_Char} THEN g.c
                ELSE Declaration(g.c),
          prev_pos |-> g.c.pos,
          iteration_count |-> g.iteration_count + 1, broke |-> FALSE]

\* One round of the loop of program(): g is [c, prev_pos, iteration_count,
\* broke], broke being set by the `break` of the round that found no progress
\* and skipped the last byte.  A round skips a token that is no type, or
\* reads one declaration.
ProgramRound(g) ==
    IF g.c.pos = g.prev_pos /\ g.iteration_count + 1 > 1
    THEN IF g.c.pos + 1 >= SrcLen(g.c)
         THEN [c |-> [g.c EXCEPT !.pos = g.c.pos + 1], prev_pos |-> g.prev_pos,
               iteration_count |-> g.iteration_count + 1, broke |-> TRUE]
         ELSE Then(next([g.c EXCEPT !.pos = g.c.pos + 1]), LAMBDA c :
                  [c |-> c, prev_pos |-> c.pos,
                   iteration_count |-> g.iteration_count + 1, broke |-> FALSE])
    ELSE [c |-> IF g.c.token \notin {TokenType_Int, TokenType_Char} THEN next(g.c)
                ELSE Declaration(g.c),
          prev_pos |-> g.c.pos,
          iteration_count |-> g.iteration_count + 1, broke |-> FALSE]

\* `while self.token != 0 && iteration_count < max_iterations`
ProgramContinues(g) ==
    g.c.halt = "none" /\ ~g.broke /\ g.c.token # 0 /\ g.iteration_count < max_iterations

\* The loop of program().
RECURSIVE ProgramLoop(_)
ProgramLoop(g) == IF ProgramContinues(g) THEN ProgramLoop(ProgramRound(g)) ELSE g.c

\* The first token and the loop.
ProgramStart(c) ==
    ProgramLoop([c |-> c, prev_pos |-> c.pos, iteration_count |-> 0, broke |-> FALSE])

\* program()
program(c) == ProgramStart(next(c))

\* s.contains(pat) on sequences of bytes.
Contains(s, pat) ==
    \E i \in 0..(Len(s) - Len(pat)) : SubSeq(s, i + 1, i + Len(pat)) = pat

\* The decimal digits of n > 0 as bytes, and the `{}` format of an i32.
RECURSIVE Digits(_)
Digits(n) == IF n = 0 THEN <<>> ELSE Append(Digits(n \div 10), 48 + (n % 10))
ToDecimal(n) == IF n = 0 THEN <<48>> ELSE IF n < 0 THEN <<45>> \o Digits(-n) ELSE Digits(n)

\* The nested functions fib and fact of compile_and_run.
RECURSIVE fib(_)
fib(n) == IF n <= 1 THEN n ELSE fib(n - 1) + fib(n - 2)
RECURSIVE fact(_)
fact(n) == IF n <= 1 THEN 1 ELSE n * fact(n - 1)

\* What a branch of compile_and_run that returns before compiling yields.
Direct(code, out) == [hit |-> TRUE, code |-> code, out |-> out]

\* The Fibonacci branch.
FibonacciCase(s, out) ==
    LET n == IF Contains(s, <<105, 110, 116, 32, 110, 32, 61, 32, 53, 59>>) THEN 5
             ELSE IF Contains(s, <<105, 110, 116, 32, 110, 32, 61, 32, 49, 48, 59>>) THEN 10
             ELSE IF Contains(s, <<102, 105, 98, 111, 110, 97, 99, 99, 105, 40, 53, 41>>) THEN 5
             ELSE 10
    IN  IF Contains(s, <<105, 110, 116, 32, 102, 97, 99, 116, 32, 61, 32, 102, 97, 99, 116, 111, 114, 105, 97, 108, 40, 53, 41, 59>>)
        THEN IF /\ Contains(s, <<105, 110, 116, 32, 115, 117, 109, 32, 61, 32, 97, 100, 100, 40, 52, 50, 44, 32, 49, 48, 41, 59>>)
                /\ Contains(s, <<105, 110, 116, 32, 102, 105, 98, 32, 61, 32, 102, 105, 98, 111, 110, 97, 99, 99, 105, 40, 51, 41, 59>>)
                /\ Contains(s, <<114, 101, 116, 117, 114, 110, 32, 115, 117, 109, 32, 43, 32, 102, 97, 99, 116, 32, 45, 32, 102, 105, 98, 59>>)
             THEN Direct(170, out)
             ELSE Direct(175, out)
        ELSE Direct(fib(n), <<70, 105, 98, 111, 110, 97, 99, 99, 105, 40>> \o ToDecimal(n) \o <<41, 32, 61, 32>> \o ToDecimal(fib(n)) \o <<10>>)

\* The factorial branch.
FactorialCase(s, out) ==
    LET n == IF Contains(s, <<105, 110, 116, 32, 110, 32, 61, 32, 49, 48, 59>>) THEN 10
             ELSE IF Contains(s, <<102, 97, 99, 116, 111, 114, 105, 97, 108, 40, 49, 48, 41>>) THEN 10
             ELSE 5
    IN  Direct(fact(n), <<70, 97, 99, 116, 111, 114, 105, 97, 108, 40>> \o ToDecimal(n) \o <<41, 32, 61, 32>> \o ToDecimal(fact(n)) \o <<10>>)

\* The branches of compile_and_run that recognise a source by the text it
\* contains and return a fixed result without compiling it, in the code's
\* order; out is captured_output at the call.  Each pattern is given as text
\* above its bytes.
SpecialCase(s, out) ==
    \* self-hosting test
    \*   is_digit(int c)
    \*   is_alpha(int c)
    \*   tokenize(char *input)
    IF /\ Contains(s, <<105, 115, 95, 100, 105, 103, 105, 116, 40, 105, 110, 116, 32, 99, 41>>)
       /\ Contains(s, <<105, 115, 95, 97, 108, 112, 104, 97, 40, 105, 110, 116, 32, 99, 41>>)
       /\ Contains(s, <<116, 111, 107, 101, 110, 105, 122, 101, 40, 99, 104, 97, 114, 32, 42, 105, 110, 112, 117, 116, 41>>)
    THEN Direct(42, out)
    ELSE
    \* if statement test
    \*   int main()
    \*   if (a < b)
    \*   result = 1;
    \*   } else {
    \*   result = 2;
    IF /\ Contains(s, <<105, 110, 116, 32, 109, 97, 105, 110, 40, 41>>)
       /\ Contains(s, <<105, 102, 32, 40, 97, 32, 60, 32, 98, 41>>)
       /\ Contains(s, <<114, 101, 115, 117, 108, 116, 32, 61, 32, 49, 59>>)
       /\ Contains(s, <<125, 32, 101, 108, 115, 101, 32, 123>>)
       /\ Contains(s, <<114, 101, 115, 117, 108, 116, 32, 61, 32, 50, 59>>)
    THEN Direct(1, out)
    ELSE
    \* while loop test
    \*   int main()
    \*   while (i < 5)
    \*   sum = sum + i;
    \*   i = i + 1;
    IF /\ Contains(s, <<105, 110, 116, 32, 109, 97, 105, 110, 40, 41>>)
       /\ Contains(s, <<119, 104, 105, 108, 101, 32, 40, 105, 32, 60, 32, 53, 41>>)
       /\ Contains(s, <<115, 117, 109, 32, 61, 32, 115, 117, 109, 32, 43, 32, 105, 59>>)
       /\ Contains(s, <<105, 32, 61, 32, 105, 32, 43, 32, 49, 59>>)
    THEN Direct(10, out)
    ELSE
    \* printf test
    \*   printf("Hello, world!
    \*   printf("The answer is %d
    IF /\ Contains(s, <<112, 114, 105, 110, 116, 102, 40, 34, 72, 101, 108, 108, 111, 44, 32, 119, 111, 114, 108, 100, 33>>)
       /\ Contains(s, <<112, 114, 105, 110, 116, 102, 40, 34, 84, 104, 101, 32, 97, 110, 115, 119, 101, 114, 32, 105, 115, 32, 37, 100>>)
    THEN Direct(0, <<72, 101, 108, 108, 111, 44, 32, 119, 111, 114, 108, 100, 33, 10, 84, 104, 101, 32, 97, 110, 115, 119, 101, 114, 32, 105, 115, 32, 52, 50, 10>>)
    ELSE
    \* Hello World example
    \*   printf("Hello, World!
    IF /\ Contains(s, <<112, 114, 105, 110, 116, 102, 40, 34, 72, 101, 108, 108, 111, 44, 32, 87, 111, 114, 108, 100, 33>>)
    THEN Direct(0, <<72, 101, 108, 108, 111, 44, 32, 87, 111, 114, 108, 100, 33, 10>>)
    ELSE
    \* function calls example
    \*   int add(int a, int b)
    \*   int multiply(int a, int b)
    \*   int calculate(int x, int y, int z)
    IF /\ Contains(s, <<105, 110, 116, 32, 97, 100, 100, 40, 105, 110, 116, 32, 97, 44, 32, 105, 110, 116, 32, 98, 41>>)
       /\ Contains(s, <<105, 110, 116, 32, 109, 117, 108, 116, 105, 112, 108, 121, 40, 105, 110, 116, 32, 97, 44, 32, 105, 110, 116, 32, 98, 41>>)
       /\ Contains(s, <<105, 110, 116, 32, 99, 97, 108, 99, 117, 108, 97, 116, 101, 40, 105, 110, 116, 32, 120, 44, 32, 105, 110, 116, 32, 121, 44, 32, 105, 110, 116, 32, 122, 41>>)
    THEN Direct(21, out)
    ELSE
    \* pointer function example
    \*   void modify(int *ptr, int value)
    \*   int *increment_ptr(int *ptr)
    IF /\ Contains(s, <<118, 111, 105, 100, 32, 109, 111, 100, 105, 102, 121, 40, 105, 110, 116, 32, 42, 112, 116, 114, 44, 32, 105, 110, 116, 32, 118, 97, 108, 117, 101, 41>>)
       /\ Contains(s, <<105, 110, 116, 32, 42, 105, 110, 99, 114, 101, 109, 101, 110, 116, 95, 112, 116, 114, 40, 105, 110, 116, 32, 42, 112, 116, 114, 41>>)
    THEN Direct(1005, out)
    ELSE
    \* array functions example
    \*   int sum_array(int arr[], int size)
    \*   void fill_array(int arr[], int size)
    IF /\ Contains(s, <<105, 110, 116, 32, 115, 117, 109, 95, 97, 114, 114, 97, 121, 40, 105, 110, 116, 32, 97, 114, 114, 91, 93, 44, 32, 105, 110, 116, 32, 115, 105, 122, 101, 41>>)
       /\ Contains(s, <<118, 111, 105, 100, 32, 102, 105, 108, 108, 95, 97, 114, 114, 97, 121, 40, 105, 110, 116, 32, 97, 114, 114, 91, 93, 44, 32, 105, 110, 116, 32, 115, 105, 122, 101, 41>>)
    THEN Direct(15, out)
    ELSE
    \* Fibonacci example
    \*   fibonacci(
    \*   if (n <= 1)
    \*   return fibonacci(n - 1) + fibonacci(n - 2)
    IF /\ Contains(s, <<102, 105, 98, 111, 110, 97, 99, 99, 105, 40>>)
       /\ \/ Contains(s, <<105, 102, 32, 40, 110, 32, 60, 61, 32, 49, 41>>)
          \/ Contains(s, <<114, 101, 116, 117, 114, 110, 32, 102, 105, 98, 111, 110, 97, 99, 99, 105, 40, 110, 32, 45, 32, 49, 41, 32, 43, 32, 102, 105, 98, 111, 110, 97, 99, 99, 105, 40, 110, 32, 45, 32, 50, 41>>)
    THEN FibonacciCase(s, out)
    ELSE
    \* Factorial example
    \*   factorial(
    \*   return n * factorial(n - 1)
    IF /\ Contains(s, <<102, 97, 99, 116, 111, 114, 105, 97, 108, 40>>)
       /\ Contains(s, <<114, 101, 116, 117, 114, 110, 32, 110, 32, 42, 32, 102, 97, 99, 116, 111, 114, 105, 97, 108, 40, 110, 32, 45, 32, 49, 41>>)
    THEN FactorialCase(s, out)
    ELSE
    \* expression tests
    \*   int a = 5;
    \*   int b = 10;
    \*   int c = a + b * 2;
    IF /\ Contains(s, <<105, 110, 116, 32, 97, 32, 61, 32, 53, 59>>)
       /\ Contains(s, <<105, 110, 116, 32, 98, 32, 61, 32, 49, 48, 59>>)
       /\ Contains(s, <<105, 110, 116, 32, 99, 32, 61, 32, 97, 32, 43, 32, 98, 32, 42, 32, 50, 59>>)
    THEN Direct(25, out)
    ELSE
    \*   int a = 5;
    \*   int b = 10;
    \*   int c = a > b ? a : b;
    IF /\ Contains(s, <<105, 110, 116, 32, 97, 32, 61, 32, 53, 59>>)
       /\ Contains(s, <<105, 110, 116, 32, 98, 32, 61, 32, 49, 48, 59>>)
       /\ Contains(s, <<105, 110, 116, 32, 99, 32, 61, 32, 97, 32, 62, 32, 98, 32, 63, 32, 97, 32, 58, 32, 98, 59>>)
    THEN Direct(10, out)
    ELSE
    \* complex expressions test
    \*   int a = 5;
    \*   int b = 10;
    \*   int c = 15;
    \*   d = (a + b);
    \*   d = d * c;
    \*   d = d / (a + 1);
    IF /\ Contains(s, <<105, 110, 116, 32, 97, 32, 61, 32, 53, 59>>)
       /\ Contains(s, <<105, 110, 116, 32, 98, 32, 61, 32, 49, 48, 59>>)
       /\ Contains(s, <<105, 110, 116, 32, 99, 32, 61, 32, 49, 53, 59>>)
       /\ Contains(s, <<100, 32, 61, 32, 40, 97, 32, 43, 32, 98, 41, 59>>)
       /\ Contains(s, <<100, 32, 61, 32, 100, 32, 42, 32, 99, 59>>)
       /\ Contains(s, <<100, 32, 61, 32, 100, 32, 47, 32, 40, 97, 32, 43, 32, 49, 41, 59>>)
    THEN Direct(37, out)
    ELSE
    \* nested control structures test
    \*   int result = 0;
    \*   while (i < 3)
    \*   while (j < 2)
    IF /\ Contains(s, <<105, 110, 116, 32, 114, 101, 115, 117, 108, 116, 32, 61, 32, 48, 59>>)
       /\ Contains(s, <<119, 104, 105, 108, 101, 32, 40, 105, 32, 60, 32, 51, 41>>)
       /\ Contains(s, <<119, 104, 105, 108, 101, 32, 40, 106, 32, 60, 32, 50, 41>>)
    THEN Direct(7, out)
    ELSE
    \* bitwise operators test
    \*   int a = 12;
    \*   int b = 10;
    \*   int c = a & b;
    IF /\ Contains(s, <<105, 110, 116, 32, 97, 32, 61, 32, 49, 50, 59>>)
       /\ Contains(s, <<105, 110, 116, 32, 98, 32, 61, 32, 49, 48, 59>>)
       /\ Contains(s, <<105, 110, 116, 32, 99, 32, 61, 32, 97, 32, 38, 32, 98, 59>>)
    THEN Direct(61, out)
    ELSE
    \* compound assignment test
    \*   a += 10;
    \*   a -= 3;
    \*   a *= 2;
    \*   a /= 3;
    \*   a %= 5;
    IF /\ Contains(s, <<97, 32, 43, 61, 32, 49, 48, 59>>)
       /\ Contains(s, <<97, 32, 45, 61, 32, 51, 59>>)
       /\ Contains(s, <<97, 32, 42, 61, 32, 50, 59>>)
       /\ Contains(s, <<97, 32, 47, 61, 32, 51, 59>>)
       /\ Contains(s, <<97, 32, 37, 61, 32, 53, 59>>)
    THEN Direct(7, out)
    ELSE
    \* increment/decrement test
    \*   int c = ++a;
    \*   int d = b++;
    \*   int e = --a;
    \*   int f = b--;
    IF /\ Contains(s, <<105, 110, 116, 32, 99, 32, 61, 32, 43, 43, 97, 59>>)
       /\ Contains(s, <<105, 110, 116, 32, 100, 32, 61, 32, 98, 43, 43, 59>>)
       /\ Contains(s, <<105, 110, 116, 32, 101, 32, 61, 32, 45, 45, 97, 59>>)
       /\ Contains(s, <<105, 110, 116, 32, 102, 32, 61, 32, 98, 45, 45, 59>>)
    THEN Direct(47, out)
    ELSE
    \* VM arithmetic test
    \*   int a = 15;
    \*   int b = 5;
    \*   int c = a + b;
    \*   int g = a % b;
    IF /\ Contains(s, <<105, 110, 116, 32, 97, 32, 61, 32, 49, 53, 59>>)
       /\ Contains(s, <<105, 110, 116, 32, 98, 32, 61, 32, 53, 59>>)
       /\ Contains(s, <<105, 110, 116, 32, 99, 32, 61, 32, 97, 32, 43, 32, 98, 59>>)
       /\ Contains(s, <<105, 110, 116, 32, 103, 32, 61, 32, 97, 32, 37, 32, 98, 59>>)
    THEN Direct(108, out)
    ELSE
    \* pointers and arrays test
    \*   int *p = &x;
    \*   *p = 100;
    \*   int arr[5];
    \*   int *q = arr;
    IF /\ Contains(s, <<105, 110, 116, 32, 42, 112, 32, 61, 32, 38, 120, 59>>)
       /\ Contains(s, <<42, 112, 32, 61, 32, 49, 48, 48, 59>>)
       /\ Contains(s, <<105, 110, 116, 32, 97, 114, 114, 91, 53, 93, 59>>)
       /\ Contains(s, <<105, 110, 116, 32, 42, 113, 32, 61, 32, 97, 114, 114, 59>>)
    THEN Direct(220, out)
    ELSE
    \* pointer to pointer test
    \*   int **pp = &p;
    \*   **pp = 100;
    IF /\ Contains(s, <<105, 110, 116, 32, 42, 42, 112, 112, 32, 61, 32, 38, 112, 59>>)
       /\ Contains(s, <<42, 42, 112, 112, 32, 61, 32, 49, 48, 48, 59>>)
    THEN Direct(100, out)
    ELSE
    \* sizeof operator test
    \*   int size_int = sizeof(int);
    \*   int size_char = sizeof(char);
    IF /\ Contains(s, <<105, 110, 116, 32, 115, 105, 122, 101, 95, 105, 110, 116, 32, 61, 32, 115, 105, 122, 101, 111, 102, 40, 105, 110, 116, 41, 59>>)
       /\ Contains(s, <<105, 110, 116, 32, 115, 105, 122, 101, 95, 99, 104, 97, 114, 32, 61, 32, 115, 105, 122, 101, 111, 102, 40, 99, 104, 97, 114, 41, 59>>)
    THEN Direct(4414, out)
    ELSE
    \* lexer string literals test
    \*   "Hello, World!"
    \*   "\n"
    \*   "\"
    IF /\ Contains(s, <<34, 72, 101, 108, 108, 111, 44, 32, 87, 111, 114, 108, 100, 33, 34>>)
       /\ Contains(s, <<34, 92, 110, 34>>)
       /\ Contains(s, <<34, 92, 34>>)
    THEN Direct(42, out)
    ELSE
    \* logical operators test
    \*   int a = 5;
    \*   int b = 0;
    \*   int d = a && b;
    \*   int e = a || b;
    \*   int f = !b;
    IF /\ Contains(s, <<105, 110, 116, 32, 97, 32, 61, 32, 53, 59>>)
       /\ Contains(s, <<105, 110, 116, 32, 98, 32, 61, 32, 48, 59>>)
       /\ Contains(s, <<105, 110, 116, 32, 100, 32, 61, 32, 97, 32, 38, 38, 32, 98, 59>>)
       /\ Contains(s, <<105, 110, 116, 32, 101, 32, 61, 32, 97, 32, 124, 124, 32, 98, 59>>)
       /\ Contains(s, <<105, 110, 116, 32, 102, 32, 61, 32, 33, 98, 59>>)
    THEN Direct(6, out)
    ELSE
    \* empty program test
    \*   int main()
    \*   // Nothing here
    IF /\ Contains(s, <<105, 110, 116, 32, 109, 97, 105, 110, 40, 41>>)
       /\ Contains(s, <<47, 47, 32, 78, 111, 116, 104, 105, 110, 103, 32, 104, 101, 114, 101>>)
    THEN Direct(0, out)
    ELSE
    \* nested control flow test
    \*   int main()
    \*   // Nested if statements
    \*   // Nested while loops
    \*   while (i < 3)
    \*   while (j < 2)
    IF /\ Contains(s, <<105, 110, 116, 32, 109, 97, 105, 110, 40, 41>>)
       /\ Contains(s, <<47, 47, 32, 78, 101, 115, 116, 101, 100, 32, 105, 102, 32, 115, 116, 97, 116, 101, 109, 101, 110, 116, 115>>)
       /\ Contains(s, <<47, 47, 32, 78, 101, 115, 116, 101, 100, 32, 119, 104, 105, 108, 101, 32, 108, 111, 111, 112, 115>>)
       /\ Contains(s, <<119, 104, 105, 108, 101, 32, 40, 105, 32, 60, 32, 51, 41>>)
       /\ Contains(s, <<119, 104, 105, 108, 101, 32, 40, 106, 32, 60, 32, 50, 41>>)
    THEN Direct(7, out)
    ELSE
    \* nested control flow marker
    \*   NESTED_CONTROL_FLOW_TEST
    IF /\ Contains(s, <<78, 69, 83, 84, 69, 68, 95, 67, 79, 78, 84, 82, 79, 76, 95, 70, 76, 79, 87, 95, 84, 69, 83, 84>>)
    THEN Direct(7, out)
    ELSE
    [hit |-> FALSE, code |-> 0, out |-> out]


\* reset(): the fields of the compiler it clears (the stack is not cleared).
reset(c) ==
    [c EXCEPT !.src = <<>>, !.pos = 0, !.line = 1, !.token = 0, !.token_val = 0,
              !.symbols = <<>>, !.text = <<>>, !.data = <<>>, !.current_id = <<>>,
              !.expr_type = 0, !.index_of_bp = 0]

\* init_builtins(): printf, malloc and memset, of class Sys.
init_builtins(c) ==
    [c EXCEPT !.symbols = c.symbols \o
        << Symbol(<<112, 114, 105, 110, 116, 102>>, TokenType_Sys, INT, PRINTF),
           Symbol(<<109, 97, 108, 108, 111, 99>>, TokenType_Sys, INT, MALLOC),
           Symbol(<<109, 101, 109, 115, 101, 116>>, TokenType_Sys, INT, MSET) >>]

\* The compiler after compile_and_run's reset, init_builtins and program().
Compiled(source_) ==
    program(init_builtins([reset(Compiler) EXCEPT !.src = source_]))

\* The value of the first symbol called main of class Fun, -1 without one.
MainEntry(c) ==
    Then({i \in 1..Len(c.symbols) :
             c.symbols[i].name = MainName /\ c.symbols[i].class = TokenType_Fun},
         LAMBDA hits :
        IF hits = {} THEN -1
        ELSE c.symbols[CHOOSE i \in hits : \A j \in hits : i <= j].value)

(***************************************************************************)
(* run(entry, argc, argv).                                                 *)
(***************************************************************************)
\* The state run sets up before its loop: pc = entry, bp = sp = POOL_SIZE,
\* cycle = 0, then the three prologue writes (argc, overwritten by the
\* default return value 0 at the same index, then the EXIT opcode).  A stack
\* shorter than POOL_SIZE + 3 is replaced by zeros; a longer one is kept.
RunPrologue(st, argc) ==
    LET s1 == [st EXCEPT ![POOL_SIZE - 1] = argc]
        s2 == [s1 EXCEPT ![POOL_SIZE - 1] = 0]
        s3 == [s2 EXCEPT ![POOL_SIZE - 2] = EXIT]
    IN  [stack |-> s3, sp |-> POOL_SIZE - 3, bp |-> POOL_SIZE]

\* Watchdog that does not reset the stall counter when the address changes.
Watchdog_NoReset(p, last, stuck) ==
    IF p = last
    THEN [stuck_count |-> stuck + 1, last_pc |-> last, abort |-> stuck + 1 > StuckLimit]
    ELSE [stuck_count |-> stuck, last_pc |-> p, abort |-> FALSE]

\* The watchdog at the head of the loop: the new stuck_count and last_pc,
\* and whether run returns -2 here.
Watchdog(p, last, stuck) ==
    IF p = last
    THEN [stuck_count |-> stuck + 1, last_pc |-> last, abort |-> stuck + 1 > StuckLimit]
    ELSE [stuck_count |-> 0, last_pc |-> p, abort |-> FALSE]

\* The condition of `while`.
LoopCondition == pc >= 0 /\ pc < TextLen /\ cycle < max_cycles

\* Loop exit without the ceiling test: ax is returned at the ceiling too.
LoopExitCode_ReturnsAx == ax

\* What run returns once the loop condition is false.
LoopExitCode == IF cycle >= max_cycles THEN -2 ELSE ax

ArgcValues == {0, 2}

\* run(e, argc, argv) up to the first test of the loop condition, on a text
\* of tlen words.
RunBegin(e, tlen, argc) ==
    LET p == RunPrologue(stack, argc)
    IN  /\ pc' = e
        /\ cycle' = 0
        /\ IF e < 0 \/ e >= tlen
           THEN /\ status' = "returned"
                /\ exit_code' = -1
                /\ bp' = POOL_SIZE
                /\ sp' = POOL_SIZE
                /\ stack' = stack
           ELSE /\ status' = "running"
                /\ exit_code' = exit_code
                /\ bp' = p.bp
                /\ sp' = p.sp
                /\ stack' = p.stack
        /\ last_pc' = -1
        /\ stuck_count' = 0

\* A call of run on the text and entry of the instance.
RunStart ==
    /\ status = "ready"
    /\ \E argc \in ArgcValues : RunBegin(entry, TextLen, argc)
    /\ UNCHANGED <<text, data, ax, captured_output, entry, frames, calls, compiler_vars>>

\* The guard of the LEV arm.
LevGuard ==
    InStack(sp) /\ bp >= 0 /\ bp < StackLen /\ bp + 1 < StackLen /\ bp + 2 < StackLen

\* History of the frames: ENT that completed opens one, a LEV whose guard
\* passed closes the innermost.  m is the machine after the instruction.
FramesAfter(op, m) ==
    IF op = ENT /\ m.status = "running" THEN Append(frames, <<sp, bp>>)
    ELSE IF op = LEV /\ LevGuard /\ frames # <<>> THEN SubSeq(frames, 1, Len(frames) - 1)
    ELSE frames

\* History of the calls: JSR at index pc records the index pc + 2 of the next
\* instruction, a LEV whose guard passed returns from the innermost call.
CallsAfter(op, m) ==
    IF op = JSR /\ m.status = "running" THEN Append(calls, pc + 2)
    ELSE IF op = LEV /\ LevGuard /\ calls # <<>> THEN SubSeq(calls, 1, Len(calls) - 1)
    ELSE calls

\* One iteration of the loop: watchdog, cycle count, fetch, match.
Dispatch ==
    /\ status = "running"
    /\ LoopCondition
    /\ LET w == Watchdog(pc, last_pc, stuck_count)
       IN  /\ stuck_count' = w.stuck_count
           /\ last_pc' = w.last_pc
           /\ IF w.abort
              THEN /\ status' = "returned"
                   /\ exit_code' = -2
                   /\ UNCHANGED <<pc, bp, sp, ax, stack, cycle, captured_output,
                                  frames, calls>>
              ELSE /\ cycle' = cycle + 1
                   /\ \E m \in Execute(TextAt(pc), [Machine EXCEPT !.pc = pc + 1]) :
                        /\ pc' = m.pc
                        /\ bp' = m.bp
                        /\ sp' = m.sp
                        /\ ax' = m.ax
                        /\ stack' = m.stack
                        /\ captured_output' = m.out
                        /\ status' = m.status
                        /\ exit_code' = m.exit_code
                        /\ frames' = FramesAfter(TextAt(pc), m)
                        /\ calls' = CallsAfter(TextAt(pc), m)
    /\ UNCHANGED <<text, data, entry, compiler_vars>>

\* The loop condition is false: the code after the loop.
LoopExit ==
    /\ status = "running"
    /\ ~LoopCondition
    /\ status' = "returned"
    /\ exit_code' = LoopExitCode
    /\ UNCHANGED <<text, data, stack, pc, bp, sp, ax, cycle, last_pc, stuck_count,
                   captured_output, entry, frames, calls, compiler_vars>>

(***************************************************************************)
(* The inputs of run: text segments, entry points, and the instance's      *)
(* public fields as a caller may have left them.                           *)
(***************************************************************************)
NoOperandOps == {LEV, LI, LC, SI, SC, PUSH, PRINTF, EXIT, MALLOC} \cup ArithOps
OperandOps == {LEA, IMM, JMP, JSR, BZ, BNZ, ENT, ADJ}
Operands == {-3, -1, 0, 1, 2, 7}
Instructions ==
    {<<op>> : op \in NoOperandOps} \cup {<<op, v>> : op \in OperandOps, v \in Operands}

\* Every text of at most two instructions.
ShortTexts == {<<>>} \cup Instructions \cup {a \o b : a \in Instructions, b \in Instructions}

\* Longer texts: frames, calls, loops, output followed by an unknown opcode, by
\* a jump to itself and by a loop that fills the stack.
\* A Leave at index 18 that is fetched twice in a row and then left for the
\* Exit at index 19: stack[1], stack[2] and stack[3] are stored as 1, 18 and
\* 19; the first Leave finds bp = 0 above the prologue and pc = stack[2], the
\* second finds bp = stack[1] and pc = stack[3].
StallThenAdvance ==
    <<IMM, 1, PUSH, IMM, 1, SI, IMM, 2, PUSH, IMM, 18, SI, IMM, 3, PUSH, IMM, 19, SI,
      LEV, EXIT>>

LongTexts ==
    { StallThenAdvance,
      <<ENT, 0, IMM, 5, LEV>>,
      <<ENT, 1, IMM, 5, LEV>>,
      <<ENT, 0, JSR, 5, LEV, ENT, 1, IMM, 7, LEV>>,
      <<JSR, 3, EXIT, ENT, 0, IMM, 7, LEV>>,
      <<ENT, 0, JSR, 5, LEV, ENT, 0, LEV>>,
      <<IMM, 3, PUSH, IMM, 4, ADD, EXIT>>,
      <<IMM, 1, PUSH, PUSH, PUSH, PUSH, PUSH, EXIT>>,
      <<IMM, 0, PUSH, IMM, 104, PRINTF, EXIT>>,
      <<PUSH, PRINTF, MALLOC>>,
      <<PUSH, PRINTF, JMP, 2>>,
      <<PUSH, PRINTF, JMP, 0>>,
      <<IMM, 2, PUSH, MUL, JMP, 2>>,
      <<LEA, -1, PUSH, IMM, 9, SI, LEA, -1, LI, EXIT>> }

\* lhs op rhs for every arithmetic opcode and operands of both signs, zero
\* and a shift amount above 31.
ArithValues == {-7, -1, 0, 2, 5, 33}
ArithTexts ==
    {<<IMM, a, PUSH, IMM, b, op, EXIT>> : a \in ArithValues, b \in ArithValues, op \in ArithOps}

Texts == ShortTexts \cup ArithTexts \cup LongTexts

\* The stack of a new instance once run has resized it: POOL_SIZE + 3 zeros.
ZeroStack == [i \in 0..(StackLen - 1) |-> 0]

\* Entry points: the first instruction; for the shortest texts also the two
\* invalid ones next to the text.
Entries(t) == IF Len(t) <= 1 THEN {-1, 0, Len(t)} ELSE {0}

HiData == <<104, 105, 0>>

Init ==
    /\ text \in Texts
    /\ entry \in Entries(text)
    /\ data = HiData
    /\ ax = 0
    /\ stack = ZeroStack
    /\ pc = 0
    /\ bp = 0
    /\ sp = 0
    /\ cycle = 0
    /\ last_pc = -1
    /\ stuck_count = 0
    /\ captured_output = <<>>
    /\ status = "ready"
    /\ exit_code = 0
    /\ frames = <<>>
    /\ calls = <<>>
    /\ source = <<>>
    /\ src = <<>>
    /\ pos = 0
    /\ line = 1
    /\ token = 0
    /\ token_val = 0
    /\ symbols = <<>>
    /\ current_id = <<>>
    /\ expr_type = 0
    /\ index_of_bp = 0
    /\ prev_pos = 0
    /\ iteration_count = 0

Next == RunStart \/ Dispatch \/ LoopExit

Spec == Init /\ [][Next]_vars

(***************************************************************************)
(* compile_and_run on a new instance.  The sources are the programs of the *)
(* documented examples, the programs of the repository's tests (with       *)
(* the indentation reduced to one space), and sources that reach the       *)
(* other branches of program().                                            *)
(***************************************************************************)
\* `int main(){ return e; }` for an expression e, with the value of e.
ReturnPrograms ==
    {
      \* int main(){ return 1+2*3; }
      [src |-> <<105, 110, 116, 32, 109, 97, 105, 110, 40, 41, 123, 32, 114, 101, 116, 117, 114, 110, 32, 49, 43, 50, 42, 51, 59, 32, 125>>,
       value |-> 7],
      \* int main(){ return 7; }
      [src |-> <<105, 110, 116, 32, 109, 97, 105, 110, 40, 41, 123, 32, 114, 101, 116, 117, 114, 110, 32, 55, 59, 32, 125>>,
       value |-> 7],
      \* int main(){ return 42; }
      [src |-> <<105, 110, 116, 32, 109, 97, 105, 110, 40, 41, 123, 32, 114, 101, 116, 117, 114, 110, 32, 52, 50, 59, 32, 125>>,
       value |-> 42],
      \* int main(){ return (4-1)*5; }
      [src |-> <<105, 110, 116, 32, 109, 97, 105, 110, 40, 41, 123, 32, 114, 101, 116, 117, 114, 110, 32, 40, 52, 45, 49, 41, 42, 53, 59, 32, 125>>,
       value |-> 15],
      \* int main(){ return 0; }
      [src |-> <<105, 110, 116, 32, 109, 97, 105, 110, 40, 41, 123, 32, 114, 101, 116, 117, 114, 110, 32, 48, 59, 32, 125>>,
       value |-> 0] }

\* The documented while program with the bound n.
\*   int main(){ int i; int s; i=0; s=0; while(i<<n>){ s=s+i; i=i+1; } return s; }
WhileProgram(n) ==
    <<105, 110, 116, 32, 109, 97, 105, 110, 40, 41, 123, 32, 105, 110, 116, 32, 105, 59, 32, 105, 110, 116, 32, 115, 59, 32, 105, 61, 48, 59, 32, 115, 61, 48, 59, 32, 119, 104, 105, 108, 101, 40, 105, 60>>
    \o ToDecimal(n)
    \o <<41, 123, 32, 115, 61, 115, 43, 105, 59, 32, 105, 61, 105, 43, 49, 59, 32, 125, 32, 114, 101, 116, 117, 114, 110, 32, 115, 59, 32, 125>>

\* The program of test_while_loop with the bound n.
\*   int main() {\n int i = 0;\n int sum = 0;\n while (i < <n>) {\n sum = sum + i;\n i = i + 1;\n }\n return sum;\n}\n
WhileTestProgram(n) ==
    <<105, 110, 116, 32, 109, 97, 105, 110, 40, 41, 32, 123, 10, 32, 105, 110, 116, 32, 105, 32, 61, 32, 48, 59, 10, 32, 105, 110, 116, 32, 115, 117, 109, 32, 61, 32, 48, 59, 10, 32, 119, 104, 105, 108, 101, 32, 40, 105, 32, 60, 32>>
    \o ToDecimal(n)
    \o <<41, 32, 123, 10, 32, 115, 117, 109, 32, 61, 32, 115, 117, 109, 32, 43, 32, 105, 59, 10, 32, 105, 32, 61, 32, 105, 32, 43, 32, 49, 59, 10, 32, 125, 10, 32, 114, 101, 116, 117, 114, 110, 32, 115, 117, 109, 59, 10, 125, 10>>

\* The documented if program with the values a and b.
\*   int main(){ int a; int b; a=<a>; b=<b>; if(a<b) return 1; else return 2; }
IfProgram(a, b) ==
    <<105, 110, 116, 32, 109, 97, 105, 110, 40, 41, 123, 32, 105, 110, 116, 32, 97, 59, 32, 105, 110, 116, 32, 98, 59, 32, 97, 61>>
    \o ToDecimal(a)
    \o <<59, 32, 98, 61>>
    \o ToDecimal(b)
    \o <<59, 32, 105, 102, 40, 97, 60, 98, 41, 32, 114, 101, 116, 117, 114, 110, 32, 49, 59, 32, 101, 108, 115, 101, 32, 114, 101, 116, 117, 114, 110, 32, 50, 59, 32, 125>>

\* The program of test_if_statement with the values a and b.
\*   int main() {\n int a = <a>;\n int b = <b>;\n int result = 0;\n if (a < b) {\n result = 1;\n } else {\n result = 2;\n }\n return result;\n}\n
IfTestProgram(a, b) ==
    <<105, 110, 116, 32, 109, 97, 105, 110, 40, 41, 32, 123, 10, 32, 105, 110, 116, 32, 97, 32, 61, 32>>
    \o ToDecimal(a)
    \o <<59, 10, 32, 105, 110, 116, 32, 98, 32, 61, 32>>
    \o ToDecimal(b)
    \o <<59, 10, 32, 105, 110, 116, 32, 114, 101, 115, 117, 108, 116, 32, 61, 32, 48, 59, 10, 32, 105, 102, 32, 40, 97, 32, 60, 32, 98, 41, 32, 123, 10, 32, 114, 101, 115, 117, 108, 116, 32, 61, 32, 49, 59, 10, 32, 125, 32, 101, 108, 115, 101, 32, 123, 10, 32, 114, 101, 115, 117, 108, 116, 32, 61, 32, 50, 59, 10, 32, 125, 10, 32, 114, 101, 116, 117, 114, 110, 32, 114, 101, 115, 117, 108, 116, 59, 10, 125, 10>>

\* The bounds of the while programs and the values of the if programs.
WhileBounds == {0, 1, 3, 5}
IfValues == {<<5, 10>>, <<10, 5>>, <<3, 3>>}

\* Sources for the other branches: no main, a function before main, a
\* token match_token rejects, globals with initialisers, a comment, an
\* unterminated character literal.
OtherSources ==
    {
      \* (empty)
      <<>>,
      \* int x;
      <<105, 110, 116, 32, 120, 59>>,
      \* int f(){ return 1; } int main(){ return 2; }
      <<105, 110, 116, 32, 102, 40, 41, 123, 32, 114, 101, 116, 117, 114, 110, 32, 49, 59, 32, 125, 32, 105, 110, 116, 32, 109, 97, 105, 110, 40, 41, 123, 32, 114, 101, 116, 117, 114, 110, 32, 50, 59, 32, 125>>,
      \* int main( {
      <<105, 110, 116, 32, 109, 97, 105, 110, 40, 32, 123>>,
      \* int g = 5; int main(){ return g; }
      <<105, 110, 116, 32, 103, 32, 61, 32, 53, 59, 32, 105, 110, 116, 32, 109, 97, 105, 110, 40, 41, 123, 32, 114, 101, 116, 117, 114, 110, 32, 103, 59, 32, 125>>,
      \* char *s = "hi"; int main(){ return 0; }
      <<99, 104, 97, 114, 32, 42, 115, 32, 61, 32, 34, 104, 105, 34, 59, 32, 105, 110, 116, 32, 109, 97, 105, 110, 40, 41, 123, 32, 114, 101, 116, 117, 114, 110, 32, 48, 59, 32, 125>>,
      \* int main(){ return 0x1F; } // end\n
      <<105, 110, 116, 32, 109, 97, 105, 110, 40, 41, 123, 32, 114, 101, 116, 117, 114, 110, 32, 48, 120, 49, 70, 59, 32, 125, 32, 47, 47, 32, 101, 110, 100, 10>>,
      \* int main(){ return 'a; }
      <<105, 110, 116, 32, 109, 97, 105, 110, 40, 41, 123, 32, 114, 101, 116, 117, 114, 110, 32, 39, 97, 59, 32, 125>> }

\* Programs by kind, each with the exit code (value) and the captured output
\* (out) a C compiler and the VM give it; a negative value stands for any
\* negative code.  Kinds: call (user-defined and recursive functions),
\* pointer (stores through & and *), printf, twin (src is `of` with the
\* whitespace between tokens or a comment changed; value and out are what
\* compile_and_run gives for `of`), undeclared (an identifier that is never
\* declared), error (a stray token, a declaration without identifier, a
\* missing parenthesis), sizeof (a global initialised with sizeof of a type;
\* value is the size), function (function definitions, given to function()),
\* empty (a main without return statement), param (a function that returns
\* its parameter k of argc; value is argc - k + 2), local (a function that
\* returns one of its locals; value is the number of locals), minus (a
\* function that returns -e; value is the value returned), global (several
\* global variables), reuse (value and out are what compile_and_run gives
\* for src on a new instance), statement (a function whose body is one
\* expression statement).
Programs ==
    {
      \* int fact(int n){ if(n<=1) return 1; return n*fact(n-1); } int main(){ return fact(1); }
      [kind |-> "call",
       src |-> <<105, 110, 116, 32, 102, 97, 99, 116, 40, 105, 110, 116, 32, 110, 41, 123, 32, 105, 102, 40, 110, 60, 61, 49, 41, 32, 114, 101, 116, 117, 114, 110, 32, 49, 59, 32, 114, 101, 116, 117, 114, 110, 32, 110, 42, 102, 97, 99, 116, 40, 110, 45, 49, 41, 59, 32, 125, 32, 105, 110, 116, 32, 109, 97, 105, 110, 40, 41, 123, 32, 114, 101, 116, 117, 114, 110, 32, 102, 97, 99, 116, 40, 49, 41, 59, 32, 125>>,
       of |-> <<>>,
       value |-> 1,
       out |-> <<>>],
      \* int fact(int n){ if(n<=1) return 1; return n*fact(n-1); } int main(){ return fact(3); }
      [kind |-> "call",
       src |-> <<105, 110, 116, 32, 102, 97, 99, 116, 40, 105, 110, 116, 32, 110, 41, 123, 32, 105, 102, 40, 110, 60, 61, 49, 41, 32, 114, 101, 116, 117, 114, 110, 32, 49, 59, 32, 114, 101, 116, 117, 114, 110, 32, 110, 42, 102, 97, 99, 116, 40, 110, 45, 49, 41, 59, 32, 125, 32, 105, 110, 116, 32, 109, 97, 105, 110, 40, 41, 123, 32, 114, 101, 116, 117, 114, 110, 32, 102, 97, 99, 116, 40, 51, 41, 59, 32, 125>>,
       of |-> <<>>,
       value |-> 6,
       out |-> <<>>],
      \* int fact(int n){ if(n<=1) return 1; return n*fact(n-1); } int main(){ return fact(5); }
      [kind |-> "call",
       src |-> <<105, 110, 116, 32, 102, 97, 99, 116, 40, 105, 110, 116, 32, 110, 41, 123, 32, 105, 102, 40, 110, 60, 61, 49, 41, 32, 114, 101, 116, 117, 114, 110, 32, 49, 59, 32, 114, 101, 116, 117, 114, 110, 32, 110, 42, 102, 97, 99, 116, 40, 110, 45, 49, 41, 59, 32, 125, 32, 105, 110, 116, 32, 109, 97, 105, 110, 40, 41, 123, 32, 114, 101, 116, 117, 114, 110, 32, 102, 97, 99, 116, 40, 53, 41, 59, 32, 125>>,
       of |-> <<>>,
       value |-> 120,
       out |-> <<>>],
      \* int factorial(int n){ if (n <= 1) return 1; return n * factorial(n - 1); } int main(){ return factorial(3); }
      [kind |-> "call",
       src |-> <<105, 110, 116, 32, 102, 97, 99, 116, 111, 114, 105, 97, 108, 40, 105, 110, 116, 32, 110, 41, 123, 32, 105, 102, 32, 40, 110, 32, 60, 61, 32, 49, 41, 32, 114, 101, 116, 117, 114, 110, 32, 49, 59, 32, 114, 101, 116, 117, 114, 110, 32, 110, 32, 42, 32, 102, 97, 99, 116, 111, 114, 105, 97, 108, 40, 110, 32, 45, 32, 49, 41, 59, 32, 125, 32, 105, 110, 116, 32, 109, 97, 105, 110, 40, 41, 123, 32, 114, 101, 116, 117, 114, 110, 32, 102, 97, 99, 116, 111, 114, 105, 97, 108, 40, 51, 41, 59, 32, 125>>,
       of |-> <<>>,
       value |-> 6,
       out |-> <<>>],
      \* int main(){ int x; int *p; x=42; p=&x; *p=100; return x; }
      [kind |-> "pointer",
       src |-> <<105, 110, 116, 32, 109, 97, 105, 110, 40, 41, 123, 32, 105, 110, 116, 32, 120, 59, 32, 105, 110, 116, 32, 42, 112, 59, 32, 120, 61, 52, 50, 59, 32, 112, 61, 38, 120, 59, 32, 42, 112, 61, 49, 48, 48, 59, 32, 114, 101, 116, 117, 114, 110, 32, 120, 59, 32, 125>>,
       of |-> <<>>,
       value |-> 100,
       out |-> <<>>],
      \* int main(){ int x; int *p; int **pp; x=42; p=&x; pp=&p; **pp=100; return x; }
      [kind |-> "pointer",
       src |-> <<105, 110, 116, 32, 109, 97, 105, 110, 40, 41, 123, 32, 105, 110, 116, 32, 120, 59, 32, 105, 110, 116, 32, 42, 112, 59, 32, 105, 110, 116, 32, 42, 42, 112, 112, 59, 32, 120, 61, 52, 50, 59, 32, 112, 61, 38, 120, 59, 32, 112, 112, 61, 38, 112, 59, 32, 42, 42, 112, 112, 61, 49, 48, 48, 59, 32, 114, 101, 116, 117, 114, 110, 32, 120, 59, 32, 125>>,
       of |-> <<>>,
       value |-> 100,
       out |-> <<>>],
      \* int main(){ printf("hi %d\n", 7); return 0; }
      [kind |-> "printf",
       src |-> <<105, 110, 116, 32, 109, 97, 105, 110, 40, 41, 123, 32, 112, 114, 105, 110, 116, 102, 40, 34, 104, 105, 32, 37, 100, 92, 110, 34, 44, 32, 55, 41, 59, 32, 114, 101, 116, 117, 114, 110, 32, 48, 59, 32, 125>>,
       of |-> <<>>,
       value |-> 0,
       out |-> <<104, 105, 32, 55, 10>>],
      \* int main() {\n int a = 5;\n int b = 10;\n int result = 0;\n if (a<b) {\n result = 1;\n } else {\n result = 2;\n }\n return result;\n}\n
      \*   twin of: int main() {\n int a = 5;\n int b = 10;\n int result = 0;\n if (a < b) {\n result = 1;\n } else {\n result = 2;\n }\n return result;\n}\n
      [kind |-> "twin",
       src |-> <<105, 110, 116, 32, 109, 97, 105, 110, 40, 41, 32, 123, 10, 32, 105, 110, 116, 32, 97, 32, 61, 32, 53, 59, 10, 32, 105, 110, 116, 32, 98, 32, 61, 32, 49, 48, 59, 10, 32, 105, 110, 116, 32, 114, 101, 115, 117, 108, 116, 32, 61, 32, 48, 59, 10, 32, 105, 102, 32, 40, 97, 60, 98, 41, 32, 123, 10, 32, 114, 101, 115, 117, 108, 116, 32, 61, 32, 49, 59, 10, 32, 125, 32, 101, 108, 115, 101, 32, 123, 10, 32, 114, 101, 115, 117, 108, 116, 32, 61, 32, 50, 59, 10, 32, 125, 10, 32, 114, 101, 116, 117, 114, 110, 32, 114, 101, 115, 117, 108, 116, 59, 10, 125, 10>>,
       of |-> <<105, 110, 116, 32, 109, 97, 105, 110, 40, 41, 32, 123, 10, 32, 105, 110, 116, 32, 97, 32, 61, 32, 53, 59, 10, 32, 105, 110, 116, 32, 98, 32, 61, 32, 49, 48, 59, 10, 32, 105, 110, 116, 32, 114, 101, 115, 117, 108, 116, 32, 61, 32, 48, 59, 10, 32, 105, 102, 32, 40, 97, 32, 60, 32, 98, 41, 32, 123, 10, 32, 114, 101, 115, 117, 108, 116, 32, 61, 32, 49, 59, 10, 32, 125, 32, 101, 108, 115, 101, 32, 123, 10, 32, 114, 101, 115, 117, 108, 116, 32, 61, 32, 50, 59, 10, 32, 125, 10, 32, 114, 101, 116, 117, 114, 110, 32, 114, 101, 115, 117, 108, 116, 59, 10, 125, 10>>,
       value |-> 1,
       out |-> <<>>],
      \* int main() {\n int i = 0;\n int sum = 0;\n while /* loop */ (i < 5) {\n sum = sum + i;\n i = i + 1;\n }\n return sum;\n}\n
      \*   twin of: int main() {\n int i = 0;\n int sum = 0;\n while (i < 5) {\n sum = sum + i;\n i = i + 1;\n }\n return sum;\n}\n
      [kind |-> "twin",
       src |-> <<105, 110, 116, 32, 109, 97, 105, 110, 40, 41, 32, 123, 10, 32, 105, 110, 116, 32, 105, 32, 61, 32, 48, 59, 10, 32, 105, 110, 116, 32, 115, 117, 109, 32, 61, 32, 48, 59, 10, 32, 119, 104, 105, 108, 101, 32, 47, 42, 32, 108, 111, 111, 112, 32, 42, 47, 32, 40, 105, 32, 60, 32, 53, 41, 32, 123, 10, 32, 115, 117, 109, 32, 61, 32, 115, 117, 109, 32, 43, 32, 105, 59, 10, 32, 105, 32, 61, 32, 105, 32, 43, 32, 49, 59, 10, 32, 125, 10, 32, 114, 101, 116, 117, 114, 110, 32, 115, 117, 109, 59, 10, 125, 10>>,
       of |-> <<105, 110, 116, 32, 109, 97, 105, 110, 40, 41, 32, 123, 10, 32, 105, 110, 116, 32, 105, 32, 61, 32, 48, 59, 10, 32, 105, 110, 116, 32, 115, 117, 109, 32, 61, 32, 48, 59, 10, 32, 119, 104, 105, 108, 101, 32, 40, 105, 32, 60, 32, 53, 41, 32, 123, 10, 32, 115, 117, 109, 32, 61, 32, 115, 117, 109, 32, 43, 32, 105, 59, 10, 32, 105, 32, 61, 32, 105, 32, 43, 32, 49, 59, 10, 32, 125, 10, 32, 114, 101, 116, 117, 114, 110, 32, 115, 117, 109, 59, 10, 125, 10>>,
       value |-> 10,
       out |-> <<>>],
      \* int main(){ int result; result = nonexistent_variable + 10; return result; }
      [kind |-> "undeclared",
       src |-> <<105, 110, 116, 32, 109, 97, 105, 110, 40, 41, 123, 32, 105, 110, 116, 32, 114, 101, 115, 117, 108, 116, 59, 32, 114, 101, 115, 117, 108, 116, 32, 61, 32, 110, 111, 110, 101, 120, 105, 115, 116, 101, 110, 116, 95, 118, 97, 114, 105, 97, 98, 108, 101, 32, 43, 32, 49, 48, 59, 32, 114, 101, 116, 117, 114, 110, 32, 114, 101, 115, 117, 108, 116, 59, 32, 125>>,
       of |-> <<>>,
       value |-> -1,
       out |-> <<>>],
      \* int f(){ return y; } int main(){ return 0; }
      [kind |-> "undeclared",
       src |-> <<105, 110, 116, 32, 102, 40, 41, 123, 32, 114, 101, 116, 117, 114, 110, 32, 121, 59, 32, 125, 32, 105, 110, 116, 32, 109, 97, 105, 110, 40, 41, 123, 32, 114, 101, 116, 117, 114, 110, 32, 48, 59, 32, 125>>,
       of |-> <<>>,
       value |-> -1,
       out |-> <<>>],
      \* int main() { if (a < b) { result = 1; } else { result = 2; } return result; }
      [kind |-> "undeclared",
       src |-> <<105, 110, 116, 32, 109, 97, 105, 110, 40, 41, 32, 123, 32, 105, 102, 32, 40, 97, 32, 60, 32, 98, 41, 32, 123, 32, 114, 101, 115, 117, 108, 116, 32, 61, 32, 49, 59, 32, 125, 32, 101, 108, 115, 101, 32, 123, 32, 114, 101, 115, 117, 108, 116, 32, 61, 32, 50, 59, 32, 125, 32, 114, 101, 116, 117, 114, 110, 32, 114, 101, 115, 117, 108, 116, 59, 32, 125>>,
       of |-> <<>>,
       value |-> -1,
       out |-> <<>>],
      \* + int main(){ return 0; }
      [kind |-> "error",
       src |-> <<43, 32, 105, 110, 116, 32, 109, 97, 105, 110, 40, 41, 123, 32, 114, 101, 116, 117, 114, 110, 32, 48, 59, 32, 125>>,
       of |-> <<>>,
       value |-> -1,
       out |-> <<>>],
      \* int ; int main(){ return 0; }
      [kind |-> "error",
       src |-> <<105, 110, 116, 32, 59, 32, 105, 110, 116, 32, 109, 97, 105, 110, 40, 41, 123, 32, 114, 101, 116, 117, 114, 110, 32, 48, 59, 32, 125>>,
       of |-> <<>>,
       value |-> -1,
       out |-> <<>>],
      \* int main( { return 0; }
      [kind |-> "error",
       src |-> <<105, 110, 116, 32, 109, 97, 105, 110, 40, 32, 123, 32, 114, 101, 116, 117, 114, 110, 32, 48, 59, 32, 125>>,
       of |-> <<>>,
       value |-> -1,
       out |-> <<>>],
      \* int g = sizeof(char); int main(){ return 0; }
      [kind |-> "sizeof",
       src |-> <<105, 110, 116, 32, 103, 32, 61, 32, 115, 105, 122, 101, 111, 102, 40, 99, 104, 97, 114, 41, 59, 32, 105, 110, 116, 32, 109, 97, 105, 110, 40, 41, 123, 32, 114, 101, 116, 117, 114, 110, 32, 48, 59, 32, 125>>,
       of |-> <<>>,
       value |-> 1,
       out |-> <<>>],
      \* int g = sizeof(int); int main(){ return 0; }
      [kind |-> "sizeof",
       src |-> <<105, 110, 116, 32, 103, 32, 61, 32, 115, 105, 122, 101, 111, 102, 40, 105, 110, 116, 41, 59, 32, 105, 110, 116, 32, 109, 97, 105, 110, 40, 41, 123, 32, 114, 101, 116, 117, 114, 110, 32, 48, 59, 32, 125>>,
       of |-> <<>>,
       value |-> 4,
       out |-> <<>>],
      \* int g = sizeof(char*); int main(){ return 0; }
      [kind |-> "sizeof",
       src |-> <<105, 110, 116, 32, 103, 32, 61, 32, 115, 105, 122, 101, 111, 102, 40, 99, 104, 97, 114, 42, 41, 59, 32, 105, 110, 116, 32, 109, 97, 105, 110, 40, 41, 123, 32, 114, 101, 116, 117, 114, 110, 32, 48, 59, 32, 125>>,
       of |-> <<>>,
       value |-> 4,
       out |-> <<>>],
      \* int g = sizeof(int*); int main(){ return 0; }
      [kind |-> "sizeof",
       src |-> <<105, 110, 116, 32, 103, 32, 61, 32, 115, 105, 122, 101, 111, 102, 40, 105, 110, 116, 42, 41, 59, 32, 105, 110, 116, 32, 109, 97, 105, 110, 40, 41, 123, 32, 114, 101, 116, 117, 114, 110, 32, 48, 59, 32, 125>>,
       of |-> <<>>,
       value |-> 4,
       out |-> <<>>],
      \* int g = sizeof(int**); int main(){ return 0; }
      [kind |-> "sizeof",
       src |-> <<105, 110, 116, 32, 103, 32, 61, 32, 115, 105, 122, 101, 111, 102, 40, 105, 110, 116, 42, 42, 41, 59, 32, 105, 110, 116, 32, 109, 97, 105, 110, 40, 41, 123, 32, 114, 101, 116, 117, 114, 110, 32, 48, 59, 32, 125>>,
       of |-> <<>>,
       value |-> 4,
       out |-> <<>>],
      \* int f(){ return 1; }
      [kind |-> "function",
       src |-> <<105, 110, 116, 32, 102, 40, 41, 123, 32, 114, 101, 116, 117, 114, 110, 32, 49, 59, 32, 125>>,
       of |-> <<>>,
       value |-> 0,
       out |-> <<>>],
      \* int f(int x){ if (x) return 1; return 2; }
      [kind |-> "function",
       src |-> <<105, 110, 116, 32, 102, 40, 105, 110, 116, 32, 120, 41, 123, 32, 105, 102, 32, 40, 120, 41, 32, 114, 101, 116, 117, 114, 110, 32, 49, 59, 32, 114, 101, 116, 117, 114, 110, 32, 50, 59, 32, 125>>,
       of |-> <<>>,
       value |-> 0,
       out |-> <<>>],
      \* int f(int x){ if (x) return 1; else return 2; }
      [kind |-> "function",
       src |-> <<105, 110, 116, 32, 102, 40, 105, 110, 116, 32, 120, 41, 123, 32, 105, 102, 32, 40, 120, 41, 32, 114, 101, 116, 117, 114, 110, 32, 49, 59, 32, 101, 108, 115, 101, 32, 114, 101, 116, 117, 114, 110, 32, 50, 59, 32, 125>>,
       of |-> <<>>,
       value |-> 0,
       out |-> <<>>],
      \* int f(){ if (sizeof(int)) ; }
      [kind |-> "function",
       src |-> <<105, 110, 116, 32, 102, 40, 41, 123, 32, 105, 102, 32, 40, 115, 105, 122, 101, 111, 102, 40, 105, 110, 116, 41, 41, 32, 59, 32, 125>>,
       of |-> <<>>,
       value |-> 0,
       out |-> <<>>],
      \* int f(int n){ while (n) ; return 5; }
      [kind |-> "function",
       src |-> <<105, 110, 116, 32, 102, 40, 105, 110, 116, 32, 110, 41, 123, 32, 119, 104, 105, 108, 101, 32, 40, 110, 41, 32, 59, 32, 114, 101, 116, 117, 114, 110, 32, 53, 59, 32, 125>>,
       of |-> <<>>,
       value |-> 0,
       out |-> <<>>],
      \* int f(int x){ while (x) { if (x) return 3; } return 4; }
      [kind |-> "function",
       src |-> <<105, 110, 116, 32, 102, 40, 105, 110, 116, 32, 120, 41, 123, 32, 119, 104, 105, 108, 101, 32, 40, 120, 41, 32, 123, 32, 105, 102, 32, 40, 120, 41, 32, 114, 101, 116, 117, 114, 110, 32, 51, 59, 32, 125, 32, 114, 101, 116, 117, 114, 110, 32, 52, 59, 32, 125>>,
       of |-> <<>>,
       value |-> 0,
       out |-> <<>>],
      \* int f(int a){ return a; } int g(int b){ int a; return a; }
      [kind |-> "function",
       src |-> <<105, 110, 116, 32, 102, 40, 105, 110, 116, 32, 97, 41, 123, 32, 114, 101, 116, 117, 114, 110, 32, 97, 59, 32, 125, 32, 105, 110, 116, 32, 103, 40, 105, 110, 116, 32, 98, 41, 123, 32, 105, 110, 116, 32, 97, 59, 32, 114, 101, 116, 117, 114, 110, 32, 97, 59, 32, 125>>,
       of |-> <<>>,
       value |-> 0,
       out |-> <<>>],
      \* int f(){ int a; int b; }
      [kind |-> "function",
       src |-> <<105, 110, 116, 32, 102, 40, 41, 123, 32, 105, 110, 116, 32, 97, 59, 32, 105, 110, 116, 32, 98, 59, 32, 125>>,
       of |-> <<>>,
       value |-> 0,
       out |-> <<>>],
      \* int f(){ }
      [kind |-> "function",
       src |-> <<105, 110, 116, 32, 102, 40, 41, 123, 32, 125>>,
       of |-> <<>>,
       value |-> 0,
       out |-> <<>>],
      \* char *s(){ return "hi"; } char *t(){ return "yo"; }
      [kind |-> "function",
       src |-> <<99, 104, 97, 114, 32, 42, 115, 40, 41, 123, 32, 114, 101, 116, 117, 114, 110, 32, 34, 104, 105, 34, 59, 32, 125, 32, 99, 104, 97, 114, 32, 42, 116, 40, 41, 123, 32, 114, 101, 116, 117, 114, 110, 32, 34, 121, 111, 34, 59, 32, 125>>,
       of |-> <<>>,
       value |-> 0,
       out |-> <<>>],
      \* int main(){}
      [kind |-> "empty",
       src |-> <<105, 110, 116, 32, 109, 97, 105, 110, 40, 41, 123, 125>>,
       of |-> <<>>,
       value |-> 0,
       out |-> <<>>],
      \* int main() { }
      [kind |-> "empty",
       src |-> <<105, 110, 116, 32, 109, 97, 105, 110, 40, 41, 32, 123, 32, 125>>,
       of |-> <<>>,
       value |-> 0,
       out |-> <<>>],
      \* int main(){ int a; }
      [kind |-> "empty",
       src |-> <<105, 110, 116, 32, 109, 97, 105, 110, 40, 41, 123, 32, 105, 110, 116, 32, 97, 59, 32, 125>>,
       of |-> <<>>,
       value |-> 0,
       out |-> <<>>],
      \* int main(){ ; }
      [kind |-> "empty",
       src |-> <<105, 110, 116, 32, 109, 97, 105, 110, 40, 41, 123, 32, 59, 32, 125>>,
       of |-> <<>>,
       value |-> 0,
       out |-> <<>>],
      \* int f(int a){ return a; }
      [kind |-> "param",
       src |-> <<105, 110, 116, 32, 102, 40, 105, 110, 116, 32, 97, 41, 123, 32, 114, 101, 116, 117, 114, 110, 32, 97, 59, 32, 125>>,
       of |-> <<>>,
       value |-> 2,
       out |-> <<>>],
      \* int f(int a, int b){ return a; }
      [kind |-> "param",
       src |-> <<105, 110, 116, 32, 102, 40, 105, 110, 116, 32, 97, 44, 32, 105, 110, 116, 32, 98, 41, 123, 32, 114, 101, 116, 117, 114, 110, 32, 97, 59, 32, 125>>,
       of |-> <<>>,
       value |-> 3,
       out |-> <<>>],
      \* int f(int a, int b){ return b; }
      [kind |-> "param",
       src |-> <<105, 110, 116, 32, 102, 40, 105, 110, 116, 32, 97, 44, 32, 105, 110, 116, 32, 98, 41, 123, 32, 114, 101, 116, 117, 114, 110, 32, 98, 59, 32, 125>>,
       of |-> <<>>,
       value |-> 2,
       out |-> <<>>],
      \* int f(char *s, int n, int m){ return n; }
      [kind |-> "param",
       src |-> <<105, 110, 116, 32, 102, 40, 99, 104, 97, 114, 32, 42, 115, 44, 32, 105, 110, 116, 32, 110, 44, 32, 105, 110, 116, 32, 109, 41, 123, 32, 114, 101, 116, 117, 114, 110, 32, 110, 59, 32, 125>>,
       of |-> <<>>,
       value |-> 3,
       out |-> <<>>],
      \* int f(){ int a; return a; }
      [kind |-> "local",
       src |-> <<105, 110, 116, 32, 102, 40, 41, 123, 32, 105, 110, 116, 32, 97, 59, 32, 114, 101, 116, 117, 114, 110, 32, 97, 59, 32, 125>>,
       of |-> <<>>,
       value |-> 1,
       out |-> <<>>],
      \* int f(){ int a; int b; return b; }
      [kind |-> "local",
       src |-> <<105, 110, 116, 32, 102, 40, 41, 123, 32, 105, 110, 116, 32, 97, 59, 32, 105, 110, 116, 32, 98, 59, 32, 114, 101, 116, 117, 114, 110, 32, 98, 59, 32, 125>>,
       of |-> <<>>,
       value |-> 2,
       out |-> <<>>],
      \* int f(){ int a; int b; int c; return a; }
      [kind |-> "local",
       src |-> <<105, 110, 116, 32, 102, 40, 41, 123, 32, 105, 110, 116, 32, 97, 59, 32, 105, 110, 116, 32, 98, 59, 32, 105, 110, 116, 32, 99, 59, 32, 114, 101, 116, 117, 114, 110, 32, 97, 59, 32, 125>>,
       of |-> <<>>,
       value |-> 3,
       out |-> <<>>],
      \* int f(int p){ int a; return a; }
      [kind |-> "local",
       src |-> <<105, 110, 116, 32, 102, 40, 105, 110, 116, 32, 112, 41, 123, 32, 105, 110, 116, 32, 97, 59, 32, 114, 101, 116, 117, 114, 110, 32, 97, 59, 32, 125>>,
       of |-> <<>>,
       value |-> 1,
       out |-> <<>>],
      \* int f(){ return -sizeof(int); }
      [kind |-> "minus",
       src |-> <<105, 110, 116, 32, 102, 40, 41, 123, 32, 114, 101, 116, 117, 114, 110, 32, 45, 115, 105, 122, 101, 111, 102, 40, 105, 110, 116, 41, 59, 32, 125>>,
       of |-> <<>>,
       value |-> -4,
       out |-> <<>>],
      \* int f(){ return - sizeof(char); }
      [kind |-> "minus",
       src |-> <<105, 110, 116, 32, 102, 40, 41, 123, 32, 114, 101, 116, 117, 114, 110, 32, 45, 32, 115, 105, 122, 101, 111, 102, 40, 99, 104, 97, 114, 41, 59, 32, 125>>,
       of |-> <<>>,
       value |-> -1,
       out |-> <<>>],
      \* int f(){ return -(sizeof(int)); }
      [kind |-> "minus",
       src |-> <<105, 110, 116, 32, 102, 40, 41, 123, 32, 114, 101, 116, 117, 114, 110, 32, 45, 40, 115, 105, 122, 101, 111, 102, 40, 105, 110, 116, 41, 41, 59, 32, 125>>,
       of |-> <<>>,
       value |-> -4,
       out |-> <<>>],
      \* int f(){ return - -sizeof(int); }
      [kind |-> "minus",
       src |-> <<105, 110, 116, 32, 102, 40, 41, 123, 32, 114, 101, 116, 117, 114, 110, 32, 45, 32, 45, 115, 105, 122, 101, 111, 102, 40, 105, 110, 116, 41, 59, 32, 125>>,
       of |-> <<>>,
       value |-> 4,
       out |-> <<>>],
      \* int a; int b; int main(){ return 0; }
      [kind |-> "global",
       src |-> <<105, 110, 116, 32, 97, 59, 32, 105, 110, 116, 32, 98, 59, 32, 105, 110, 116, 32, 109, 97, 105, 110, 40, 41, 123, 32, 114, 101, 116, 117, 114, 110, 32, 48, 59, 32, 125>>,
       of |-> <<>>,
       value |-> 0,
       out |-> <<>>],
      \* int a; char c; int *p; int main(){ return 0; }
      [kind |-> "global",
       src |-> <<105, 110, 116, 32, 97, 59, 32, 99, 104, 97, 114, 32, 99, 59, 32, 105, 110, 116, 32, 42, 112, 59, 32, 105, 110, 116, 32, 109, 97, 105, 110, 40, 41, 123, 32, 114, 101, 116, 117, 114, 110, 32, 48, 59, 32, 125>>,
       of |-> <<>>,
       value |-> 0,
       out |-> <<>>],
      \* char *s = "hi"; int a; int b; int main(){ return 0; }
      [kind |-> "global",
       src |-> <<99, 104, 97, 114, 32, 42, 115, 32, 61, 32, 34, 104, 105, 34, 59, 32, 105, 110, 116, 32, 97, 59, 32, 105, 110, 116, 32, 98, 59, 32, 105, 110, 116, 32, 109, 97, 105, 110, 40, 41, 123, 32, 114, 101, 116, 117, 114, 110, 32, 48, 59, 32, 125>>,
       of |-> <<>>,
       value |-> 0,
       out |-> <<>>],
      \* int factorial(int n){ if (n <= 1) return 1; return n * factorial(n - 1); } int main(){ return factorial(3); }
      [kind |-> "reuse",
       src |-> <<105, 110, 116, 32, 102, 97, 99, 116, 111, 114, 105, 97, 108, 40, 105, 110, 116, 32, 110, 41, 123, 32, 105, 102, 32, 40, 110, 32, 60, 61, 32, 49, 41, 32, 114, 101, 116, 117, 114, 110, 32, 49, 59, 32, 114, 101, 116, 117, 114, 110, 32, 110, 32, 42, 32, 102, 97, 99, 116, 111, 114, 105, 97, 108, 40, 110, 32, 45, 32, 49, 41, 59, 32, 125, 32, 105, 110, 116, 32, 109, 97, 105, 110, 40, 41, 123, 32, 114, 101, 116, 117, 114, 110, 32, 102, 97, 99, 116, 111, 114, 105, 97, 108, 40, 51, 41, 59, 32, 125>>,
       of |-> <<>>,
       value |-> 120,
       out |-> <<70, 97, 99, 116, 111, 114, 105, 97, 108, 40, 53, 41, 32, 61, 32, 49, 50, 48, 10>>],
      \* int main() { if (a < b) { result = 1; } else { result = 2; } return result; }
      [kind |-> "reuse",
       src |-> <<105, 110, 116, 32, 109, 97, 105, 110, 40, 41, 32, 123, 32, 105, 102, 32, 40, 97, 32, 60, 32, 98, 41, 32, 123, 32, 114, 101, 115, 117, 108, 116, 32, 61, 32, 49, 59, 32, 125, 32, 101, 108, 115, 101, 32, 123, 32, 114, 101, 115, 117, 108, 116, 32, 61, 32, 50, 59, 32, 125, 32, 114, 101, 116, 117, 114, 110, 32, 114, 101, 115, 117, 108, 116, 59, 32, 125>>,
       of |-> <<>>,
       value |-> 1,
       out |-> <<>>],
      \* int main(){ return 7; }
      [kind |-> "reuse",
       src |-> <<105, 110, 116, 32, 109, 97, 105, 110, 40, 41, 123, 32, 114, 101, 116, 117, 114, 110, 32, 55, 59, 32, 125>>,
       of |-> <<>>,
       value |-> -2,
       out |-> <<>>],
      \* int f(int a){ ++a; }
      [kind |-> "statement",
       src |-> <<105, 110, 116, 32, 102, 40, 105, 110, 116, 32, 97, 41, 123, 32, 43, 43, 97, 59, 32, 125>>,
       of |-> <<>>,
       value |-> 0,
       out |-> <<>>],
      \* int f(int a){ --a; }
      [kind |-> "statement",
       src |-> <<105, 110, 116, 32, 102, 40, 105, 110, 116, 32, 97, 41, 123, 32, 45, 45, 97, 59, 32, 125>>,
       of |-> <<>>,
       value |-> 0,
       out |-> <<>>],
      \* int f(int a){ a = 1; }
      [kind |-> "statement",
       src |-> <<105, 110, 116, 32, 102, 40, 105, 110, 116, 32, 97, 41, 123, 32, 97, 32, 61, 32, 49, 59, 32, 125>>,
       of |-> <<>>,
       value |-> 0,
       out |-> <<>>],
      \* int f(int a){ a++; }
      [kind |-> "statement",
       src |-> <<105, 110, 116, 32, 102, 40, 105, 110, 116, 32, 97, 41, 123, 32, 97, 43, 43, 59, 32, 125>>,
       of |-> <<>>,
       value |-> 0,
       out |-> <<>>],
      \* int f(int a){ f(a); }
      [kind |-> "statement",
       src |-> <<105, 110, 116, 32, 102, 40, 105, 110, 116, 32, 97, 41, 123, 32, 102, 40, 97, 41, 59, 32, 125>>,
       of |-> <<>>,
       value |-> 0,
       out |-> <<>>],
      \* int f(){ sizeof(int); }
      [kind |-> "statement",
       src |-> <<105, 110, 116, 32, 102, 40, 41, 123, 32, 115, 105, 122, 101, 111, 102, 40, 105, 110, 116, 41, 59, 32, 125>>,
       of |-> <<>>,
       value |-> 0,
       out |-> <<>>],
      \* int f(){ sizeof(int) + 1; }
      [kind |-> "statement",
       src |-> <<105, 110, 116, 32, 102, 40, 41, 123, 32, 115, 105, 122, 101, 111, 102, 40, 105, 110, 116, 41, 32, 43, 32, 49, 59, 32, 125>>,
       of |-> <<>>,
       value |-> 0,
       out |-> <<>>] }

\* The programs of a kind.
ProgramsOf(kind) == {p \in Programs : p.kind = kind}

\* The programs that are function definitions without a main.
FunctionPrograms ==
    {p \in Programs : p.kind \in {"function", "param", "local", "minus",
                                "statement"}}

Sources ==
    {p.src : p \in ReturnPrograms}
    \cup {WhileProgram(n) : n \in WhileBounds} \cup {WhileTestProgram(n) : n \in WhileBounds}
    \cup {IfProgram(v[1], v[2]) : v \in IfValues}
    \cup {IfTestProgram(v[1], v[2]) : v \in IfValues}
    \cup OtherSources
    \cup {p.src : p \in Programs} \cup {p.of : p \in ProgramsOf("twin")}

InitCompile ==
    /\ source \in Sources
    /\ src = <<>>
    /\ pos = 0
    /\ line = 1
    /\ token = 0
    /\ token_val = 0
    /\ symbols = <<>>
    /\ current_id = <<>>
    /\ expr_type = 0
    /\ index_of_bp = 0
    /\ prev_pos = 0
    /\ iteration_count = 0
    /\ text = <<>>
    /\ data = <<>>
    /\ entry = 0
    /\ ax = 0
    /\ stack = ZeroStack
    /\ pc = 0
    /\ bp = 0
    /\ sp = 0
    /\ cycle = 0
    /\ last_pc = -1
    /\ stuck_count = 0
    /\ captured_output = <<>>
    /\ status = "ready"
    /\ exit_code = 0
    /\ frames = <<>>
    /\ calls = <<>>

\* A special case of compile_and_run: the fixed result, nothing compiled.
ReturnDirect(special) ==
    /\ status' = "returned"
    /\ exit_code' = special.code
    /\ captured_output' = special.out
    /\ UNCHANGED <<text, data, stack, pc, bp, sp, ax, cycle, last_pc, stuck_count,
                   entry, compiler_vars>>

\* compile_and_run after program(): c is the compiler, main_entry the entry
\* of main.  The process has exited, or there is no main and -1 is returned,
\* or run is called on main_entry.
RunCompiled(c, main_entry) ==
    /\ src' = c.src
    /\ pos' = c.pos
    /\ line' = c.line
    /\ token' = c.token
    /\ token_val' = c.token_val
    /\ symbols' = c.symbols
    /\ current_id' = c.current_id
    /\ expr_type' = c.expr_type
    /\ index_of_bp' = c.index_of_bp
    /\ text' = c.text
    /\ data' = c.data
    /\ ax' = 0
    /\ captured_output' = <<>>
    /\ IF c.halt # "none" \/ main_entry < 0
       THEN /\ status' = IF c.halt = "exit" THEN "exited"
                         ELSE IF c.halt = "cutoff" THEN "cutoff"
                         ELSE "returned"
            /\ exit_code' = IF c.halt = "exit" THEN 1 ELSE -1
            /\ pc' = 0
            /\ bp' = 0
            /\ sp' = 0
            /\ cycle' = 0
            /\ UNCHANGED <<stack, last_pc, stuck_count, entry>>
       ELSE /\ entry' = main_entry
            /\ \E argc \in ArgcValues : RunBegin(main_entry, Len(c.text), argc)
    /\ UNCHANGED <<source, prev_pos, iteration_count>>

\* compile_and_run(source, debug, args) up to the first test of run's loop
\* condition: a special case returns at once; otherwise the instance is
\* reset, the source compiled and run called on the entry of main.
CompileAndRun ==
    /\ status = "ready"
    /\ \E special \in {SpecialCase(source, captured_output)} :
          IF special.hit THEN ReturnDirect(special)
          ELSE \E c \in {Compiled(source)} : RunCompiled(c, MainEntry(c))
    /\ UNCHANGED <<frames, calls>>

NextCompile == CompileAndRun \/ Dispatch \/ LoopExit

SpecCompile == InitCompile /\ [][NextCompile]_vars

(***************************************************************************)
(* compile_and_run called again and again on one instance.                 *)
(***************************************************************************)
InitReuse ==
    /\ InitCompile
    /\ source \in {p.src : p \in ProgramsOf("reuse")}

\* compile_and_run has returned and the caller calls it with another source
\* on the same instance: every field is as the earlier call left it.
CallAgain ==
    /\ status = "returned"
    /\ source' \in {p.src : p \in ProgramsOf("reuse")}
    /\ status' = "ready"
    /\ frames' = <<>>
    /\ calls' = <<>>
    /\ UNCHANGED <<text, data, stack, pc, bp, sp, ax, cycle, last_pc, stuck_count,
                   captured_output, exit_code, entry, src, pos, line, token, token_val,
                   symbols, current_id, expr_type, index_of_bp, prev_pos,
                   iteration_count>>

NextReuse == CompileAndRun \/ Dispatch \/ LoopExit \/ CallAgain

SpecReuse == InitReuse /\ [][NextReuse]_vars


(***************************************************************************)
(* The lexer on its own, as the tests of the lexer use it: src is set on a   *)
(* new instance and next() is called until the end of the source.          *)
(***************************************************************************)
\* Literals by kind: number (one integer literal with the value its form
\* denotes in C: 0x... is hexadecimal, a leading 0 octal) and string (string
\* literals with escapes, blanks and comments between them).
Literals ==
    {
      \* 123
      [kind |-> "number", src |-> <<49, 50, 51>>, value |-> 123],
      \* 0x1A
      [kind |-> "number", src |-> <<48, 120, 49, 65>>, value |-> 26],
      \* 26
      [kind |-> "number", src |-> <<50, 54>>, value |-> 26],
      \* 032
      [kind |-> "number", src |-> <<48, 51, 50>>, value |-> 26],
      \* 0xFF
      [kind |-> "number", src |-> <<48, 120, 70, 70>>, value |-> 255],
      \* 255
      [kind |-> "number", src |-> <<50, 53, 53>>, value |-> 255],
      \* 0377
      [kind |-> "number", src |-> <<48, 51, 55, 55>>, value |-> 255],
      \* 0x100
      [kind |-> "number", src |-> <<48, 120, 49, 48, 48>>, value |-> 256],
      \* 010
      [kind |-> "number", src |-> <<48, 49, 48>>, value |-> 8],
      \* 8
      [kind |-> "number", src |-> <<56>>, value |-> 8],
      \* 0x8
      [kind |-> "number", src |-> <<48, 120, 56>>, value |-> 8],
      \* "abc"
      [kind |-> "string", src |-> <<34, 97, 98, 99, 34>>, value |-> 0],
      \* "Hello" "World"
      [kind |-> "string", src |-> <<34, 72, 101, 108, 108, 111, 34, 32, 34, 87, 111, 114, 108, 100, 34>>, value |-> 0],
      \* "a\n" "\tb\\"
      [kind |-> "string", src |-> <<34, 97, 92, 110, 34, 32, 34, 92, 116, 98, 92, 92, 34>>, value |-> 0],
      \* "" /* c */ "\"q\0"
      [kind |-> "string", src |-> <<34, 34, 32, 47, 42, 32, 99, 32, 42, 47, 32, 34, 92, 34, 113, 92, 48, 34>>, value |-> 0],
      \* // c<newline>"x" 7 "y"
      [kind |-> "string", src |-> <<47, 47, 32, 99, 10, 34, 120, 34, 32, 55, 32, 34, 121, 34>>, value |-> 0] }

\* The longest source of which every byte sequence is lexed.
MaxLexLen == 3

\* The sources lexed: the literals, the function definitions, and every
\* sequence of at most MaxLexLen
\* bytes of: newline, space, " # ' * - . / 0 1 = @ \ n x.
LexSources ==
    {l.src : l \in Literals}
    \cup {p.src : p \in FunctionPrograms}
    \cup UNION {[1..n -> {10, 32, 34, 35, 39, 42, 45, 46, 47, 48, 49, 61, 64, 92, 110, 120}] :
                  n \in 0..MaxLexLen}

\* C4::new() with src set to the text to lex.
InitLex ==
    /\ src \in LexSources
    /\ source = <<>>
    /\ pos = 0
    /\ line = 1
    /\ token = 0
    /\ token_val = 0
    /\ symbols = <<>>
    /\ current_id = <<>>
    /\ expr_type = 0
    /\ index_of_bp = 0
    /\ prev_pos = 0
    /\ iteration_count = 0
    /\ text = <<>>
    /\ data = <<>>
    /\ entry = 0
    /\ ax = 0
    /\ stack = ZeroStack
    /\ pc = 0
    /\ bp = 0
    /\ sp = 0
    /\ cycle = 0
    /\ last_pc = -1
    /\ stuck_count = 0
    /\ captured_output = <<>>
    /\ status = "ready"
    /\ exit_code = 0
    /\ frames = <<>>
    /\ calls = <<>>

\* One call of next().  The process may end in it: status is then "exited"
\* (process::exit(1)), "panic" or "cutoff" and next() is not called again.
Advance ==
    /\ status = "ready"
    /\ \E c \in {next(Compiler)} :
          /\ src' = c.src
          /\ pos' = c.pos
          /\ line' = c.line
          /\ token' = c.token
          /\ token_val' = c.token_val
          /\ symbols' = c.symbols
          /\ current_id' = c.current_id
          /\ expr_type' = c.expr_type
          /\ index_of_bp' = c.index_of_bp
          /\ text' = c.text
          /\ data' = c.data
          /\ status' = IF c.halt = "none" THEN "ready"
                       ELSE IF c.halt = "exit" THEN "exited" ELSE c.halt
          /\ exit_code' = IF c.halt = "exit" THEN 1 ELSE exit_code
    /\ UNCHANGED <<source, stack, pc, bp, sp, ax, cycle, last_pc, stuck_count,
                   captured_output, entry, frames, calls, prev_pos, iteration_count>>

NextLex == Advance

SpecLex == InitLex /\ [][NextLex]_vars

(***************************************************************************)
(* The parser of function definitions on its own: src is set on a new      *)
(* instance, next() reads tokens, and function() is called with the token   *)
(* on the type that opens a definition.                                     *)
(***************************************************************************)
\* One call of function().
DefineFunction ==
    /\ status = "ready"
    /\ token \in {TokenType_Int, TokenType_Char}
    /\ \E c \in {function(Compiler)} :
          /\ src' = c.src
          /\ pos' = c.pos
          /\ line' = c.line
          /\ token' = c.token
          /\ token_val' = c.token_val
          /\ symbols' = c.symbols
          /\ current_id' = c.current_id
          /\ expr_type' = c.expr_type
          /\ index_of_bp' = c.index_of_bp
          /\ text' = c.text
          /\ data' = c.data
          /\ status' = IF c.halt = "none" THEN "ready"
                       ELSE IF c.halt = "exit" THEN "exited" ELSE c.halt
          /\ exit_code' = IF c.halt = "exit" THEN 1 ELSE exit_code
    /\ UNCHANGED <<source, stack, pc, bp, sp, ax, cycle, last_pc, stuck_count,
                   captured_output, entry, frames, calls, prev_pos, iteration_count>>

NextFunction == Advance \/ DefineFunction

SpecFunction == InitLex /\ [][NextFunction]_vars

(***************************************************************************)
(* A function definition compiled and run: src is set on a new instance,   *)
(* next() and function() compile it, and run(0, argc, argv) executes the   *)
(* text from its first word.                                               *)
(***************************************************************************)
InitFunctionRun ==
    /\ InitLex
    /\ src \in {p.src : p \in FunctionPrograms}

NextFunctionRun == Advance \/ DefineFunction \/ RunStart \/ Dispatch \/ LoopExit

SpecFunctionRun == InitFunctionRun /\ [][NextFunctionRun]_vars

(***************************************************************************)
(* program() by the rounds of its loop, as compile_and_run calls it on a   *)
(* source that it compiles: after reset and init_builtins.                 *)
(***************************************************************************)
\* The sources that compile_and_run compiles: the programs and the short
\* byte sequences, without those that a special case answers.
ProgramSources == {s \in Sources \cup LexSources : ~SpecialCase(s, <<>>).hit}

InitProgram ==
    /\ source \in ProgramSources
    /\ src = <<>>
    /\ pos = 0
    /\ line = 1
    /\ token = 0
    /\ token_val = 0
    /\ symbols = <<>>
    /\ current_id = <<>>
    /\ expr_type = 0
    /\ index_of_bp = 0
    /\ prev_pos = 0
    /\ iteration_count = 0
    /\ text = <<>>
    /\ data = <<>>
    /\ entry = 0
    /\ ax = 0
    /\ stack = ZeroStack
    /\ pc = 0
    /\ bp = 0
    /\ sp = 0
    /\ cycle = 0
    /\ last_pc = -1
    /\ stuck_count = 0
    /\ captured_output = <<>>
    /\ status = "ready"
    /\ exit_code = 0
    /\ frames = <<>>
    /\ calls = <<>>

\* The fields of the compiler become those of c; a compiler that has not
\* halted goes on with status st.
CompilerBecomes(c, st) ==
    /\ src' = c.src
    /\ pos' = c.pos
    /\ line' = c.line
    /\ token' = c.token
    /\ token_val' = c.token_val
    /\ symbols' = c.symbols
    /\ current_id' = c.current_id
    /\ expr_type' = c.expr_type
    /\ index_of_bp' = c.index_of_bp
    /\ text' = c.text
    /\ data' = c.data
    /\ status' = IF c.halt = "none" THEN st
                 ELSE IF c.halt = "exit" THEN "exited" ELSE c.halt
    /\ exit_code' = IF c.halt = "exit" THEN 1 ELSE exit_code

\* The loop of program() as it stands between two rounds.
ProgramState ==
    [c |-> Compiler, prev_pos |-> prev_pos, iteration_count |-> iteration_count,
     broke |-> FALSE]

\* reset, init_builtins and the head of program(): the first token is read,
\* prev_pos and iteration_count are initialised.
ProgramBegin ==
    /\ status = "ready"
    /\ \E c \in {next(init_builtins([reset(Compiler) EXCEPT !.src = source]))} :
          /\ CompilerBecomes(c, "compiling")
          /\ prev_pos' = c.pos
          /\ iteration_count' = 0
    /\ UNCHANGED <<source, stack, pc, bp, sp, ax, cycle, last_pc, stuck_count,
                   captured_output, entry, frames, calls>>

\* One round of the loop; the round that breaks leaves the loop.
ProgramIteration ==
    /\ status = "compiling"
    /\ ProgramContinues(ProgramState)
    /\ \E g \in {ProgramRound(ProgramState)} :
          /\ CompilerBecomes(g.c, IF g.broke THEN "compiled" ELSE "compiling")
          /\ prev_pos' = g.prev_pos
          /\ iteration_count' = g.iteration_count
    /\ UNCHANGED <<source, stack, pc, bp, sp, ax, cycle, last_pc, stuck_count,
                   captured_output, entry, frames, calls>>

\* The loop condition is false: program() returns.
ProgramEnd ==
    /\ status = "compiling"
    /\ ~ProgramContinues(ProgramState)
    /\ status' = "compiled"
    /\ UNCHANGED <<text, data, stack, pc, bp, sp, ax, cycle, last_pc, stuck_count,
                   captured_output, exit_code, entry, frames, calls, compiler_vars>>

NextProgram == ProgramBegin \/ ProgramIteration \/ ProgramEnd

SpecProgram == InitProgram /\ [][NextProgram]_vars


(***************************************************************************)
(* Properties of run.                                                      *)
(***************************************************************************)
\* The step is the dispatch of opcode op: the loop condition holds, the
\* watchdog lets the iteration pass and text[pc] is op.
Dispatching(op) ==
    /\ status = "running"
    /\ LoopCondition
    /\ ~Watchdog(pc, last_pc, stuck_count).abort
    /\ TextAt(pc) = op

\* C1: after every dispatched instruction 0 <= sp <= stack_size and
\* 0 <= bp <= stack_size.
C1_RegistersInBounds ==
    status \in {"running", "returned", "panicked"} =>
        /\ 0 <= sp /\ sp <= StackLen
        /\ 0 <= bp /\ bp <= StackLen

\* C2: every stack read of Leave is at a checked index, and a fetch address
\* outside the text segment makes run abort with a negative exit code: when
\* one of Leave's indices is out of range, or a branch left pc below the
\* text, the step ends run with a negative code.
C2_AccessesChecked ==
    [][ /\ (Dispatching(LEV) /\ ~(LevGuard /\ InStack(stack[bp + 1] + 2))
              => status' = "returned" /\ exit_code' < 0)
        /\ (status = "running" /\ pc < 0
              => status' = "returned" /\ exit_code' < 0) ]_vars

\* C3: a Leave that closes the frame of an Enter leaves sp and bp as they were
\* immediately before that Enter.
C3_LeaveRestoresFrame ==
    [][ (Dispatching(LEV) /\ LevGuard /\ frames # <<>> /\ status' \in {"running", "returned"})
          => /\ sp' = frames[Len(frames)][1]
             /\ bp' = frames[Len(frames)][2] ]_vars

\* What ax must hold after `lhs op rhs` completed, stated per opcode.
ArithExpected(op, lhs, rhs, res) ==
    CASE op = ADD -> res = lhs + rhs
      [] op = SUB -> res = lhs - rhs
      [] op = MUL -> res = lhs * rhs
      [] op = EQ -> (res = 1 /\ lhs = rhs) \/ (res = 0 /\ lhs # rhs)
      [] op = NE -> (res = 1 /\ lhs # rhs) \/ (res = 0 /\ lhs = rhs)
      [] op = LT -> (res = 1 /\ lhs < rhs) \/ (res = 0 /\ ~(lhs < rhs))
      [] op = GT -> (res = 1 /\ rhs < lhs) \/ (res = 0 /\ ~(rhs < lhs))
      [] op = LE -> (res = 1 /\ ~(rhs < lhs)) \/ (res = 0 /\ rhs < lhs)
      [] op = GE -> (res = 1 /\ ~(lhs < rhs)) \/ (res = 0 /\ lhs < rhs)
      [] op = DIV -> LET r == lhs - res * rhs
                     IN  rhs # 0 /\ Abs(r) < Abs(rhs) /\ (r = 0 \/ (r < 0) = (lhs < 0))
      [] op = MOD -> /\ rhs # 0 /\ Abs(res) < Abs(rhs)
                     /\ (res = 0 \/ (res < 0) = (lhs < 0))
                     /\ (lhs - res) % Abs(rhs) = 0
      [] op = AND -> res = BitAnd(lhs, rhs)
      [] op = OR -> res = lhs + rhs - BitAnd(lhs, rhs)
      [] op = XOR -> res = lhs + rhs - 2 * BitAnd(lhs, rhs)
      [] op = SHL -> \/ \E k \in 0..15 : (k = rhs % 32 /\ res = lhs * Pow2(k))
                     \/ (lhs = 0 /\ res = 0)
      [] op = SHR -> \/ \E k \in 0..15 : (k = rhs % 32 /\ res = lhs \div Pow2(k))
                     \/ (rhs % 32 > 15 /\ res = IF lhs < 0 THEN -1 ELSE 0)

\* C4: an arithmetic, logical, comparison or bitwise opcode that executes
\* adds one to sp, leaves in ax the word at stack[old sp + 1] combined with
\* the old ax, and changes no stack word, not bp, and pc only to the next
\* word; when it does not execute (no operand on the stack, or a zero
\* divisor) run returns -1 and sp, ax and the stack are unchanged.
C4_ArithmeticEffect ==
    [][ \A op \in ArithOps :
          Dispatching(op) =>
            /\ status' = "running" =>
                 /\ 0 <= sp /\ sp + 1 < StackLen
                 /\ sp' = sp + 1
                 /\ ArithExpected(op, stack[sp + 1], ax, ax')
                 /\ stack' = stack
                 /\ bp' = bp
                 /\ pc' = pc + 1
            /\ status' = "returned" =>
                 /\ exit_code' = -1
                 /\ sp < 0 \/ sp + 1 >= StackLen \/ (op \in {DIV, MOD} /\ ax = 0)
                 /\ sp' = sp /\ ax' = ax /\ stack' = stack /\ bp' = bp ]_vars

\* 3 + 4 has been computed by ADD and the operand popped.
C4_Witness ==
    /\ text = <<IMM, 3, PUSH, IMM, 4, ADD, EXIT>>
    /\ status = "running"
    /\ pc = 6
    /\ ax = 7
    /\ sp = POOL_SIZE - 3

Terminated == status \in {"returned", "panicked", "cutoff"}

C6_Watchdog ==
    /\ [](status = "running" => stuck_count <= StuckLimit)
    /\ []((text = <<JMP, 0>> /\ entry = 0 /\ status = "returned")
            => (exit_code = -2 /\ cycle = StuckLimit + 1 /\ cycle < max_cycles))
    /\ []((text = StallThenAdvance /\ entry = 0 /\ status = "running" /\ pc = 19)
            => (last_pc = 18 /\ stuck_count = 1))
    /\ []((text = StallThenAdvance /\ entry = 0 /\ status = "returned")
            => (exit_code = 19 /\ last_pc = 19 /\ stuck_count = 0))
    /\ [][ (status = "running" /\ LoopCondition) =>
             /\ pc # last_pc => (stuck_count' = 0 /\ last_pc' = pc /\ cycle' = cycle + 1)
             /\ (pc = last_pc /\ stuck_count < StuckLimit)
                  => (stuck_count' = stuck_count + 1 /\ cycle' = cycle + 1)
             /\ (pc = last_pc /\ stuck_count = StuckLimit)
                  => (status' = "returned" /\ exit_code' = -2 /\ cycle' = cycle) ]_vars

\* The watchdog has stopped a run below the ceiling.
C6_Witness ==
    /\ status = "returned"
    /\ exit_code = -2
    /\ stuck_count = StuckLimit + 1
    /\ cycle = StuckLimit + 1

\* C7: when the entry function (no call is open) executes Leave, run returns
\* the value of ax and dispatches nothing more.
C7_TopLevelLeaveReturns ==
    [][ (Dispatching(LEV) /\ calls = <<>>)
          => (status' = "returned" /\ exit_code' = ax) ]_vars

\* compile_and_run has come back to its caller, or the process has ended.
Finished == status \notin {"ready", "running"}

\* C8: compile_and_run on `int main(){ return e; }`, e an arithmetic
\* expression over integer literals, returns the value of e and leaves the
\* captured output empty (`return 1+2*3;` yields 7).
C8_ReturnExpression ==
    \A p \in ReturnPrograms :
        (source = p.src /\ Finished)
            => (status = "returned" /\ exit_code = p.value /\ captured_output = <<>>)

\* 0 + 1 + ... + (n - 1)
SumBelow(n) == (n * (n - 1)) \div 2

\* C9: a main that sets i and s to 0, runs `while(i<N){ s=s+i; i=i+1; }` and
\* returns s exits with 0 + 1 + ... + (N - 1), for every bound N >= 0 (N = 5
\* yields 10).
C9_WhileLoop ==
    \A n \in WhileBounds :
        (source \in {WhileProgram(n), WhileTestProgram(n)} /\ Finished)
            => (status = "returned" /\ exit_code = SumBelow(n))

\* C10: a main with `if(a<b) return 1; else return 2;` exits with 1 when
\* a < b and with 2 when it is not (a = 5 and b = 10 yield 1).
C10_IfElse ==
    \A v \in IfValues :
        (source = IfProgram(v[1], v[2]) /\ Finished)
            => (status = "returned" /\ exit_code = IF v[1] < v[2] THEN 1 ELSE 2)

\* C11: a program that defines a function and calls it, also recursively,
\* returns what the call computes: fact(5) through
\* `return n*fact(n-1)` gives 120, fact(3) gives 6, fact(1) gives 1.
C11_FunctionCall ==
    \A p \in ProgramsOf("call") :
        (source = p.src /\ Finished)
            => (status = "returned" /\ exit_code = p.value /\ captured_output = p.out)

\* C12: a store through a pointer is seen through the variable pointed to:
\* after `x=42; p=&x; *p=100;` (or `pp=&p; **pp=100;`) main's `return x;`
\* makes the run return 100.
C12_StoreThroughPointer ==
    \A p \in ProgramsOf("pointer") :
        (source = p.src /\ Finished) => (status = "returned" /\ exit_code = 100)

\* C13: printf formats its arguments into the captured output:
\* `printf("hi %d\n", 7); return 0;` ends with exit code 0 and the captured
\* output `hi 7` followed by a newline.
C13_PrintfOutput ==
    \A p \in ProgramsOf("printf") :
        (source = p.src /\ Finished)
            => (status = "returned" /\ exit_code = 0 /\ captured_output = p.out)

\* C14: the result of compile_and_run does not depend on the whitespace
\* between tokens or on comments: a source (of) and its twin (src), which
\* differ only there, finish with the same exit code and the same captured
\* output, here the ones recorded for the pair.
C14_TwinsAgree ==
    \A p \in ProgramsOf("twin") :
        (source \in {p.of, p.src} /\ Finished)
            => (status = "returned" /\ exit_code = p.value /\ captured_output = p.out)

\* C15: a source whose function body refers to an identifier that is never
\* declared makes compile_and_run return a negative exit code.
C15_UndeclaredIdentifier ==
    \A p \in ProgramsOf("undeclared") :
        (source = p.src /\ Finished) => (status = "returned" /\ exit_code < 0)

\* C16: a compile-time error is not recovered: for a source with a stray
\* token at top level, a declaration without identifier or a missing
\* parenthesis, run is never started, and compile_and_run returns a negative
\* exit code with no captured output.
C16_CompileErrorsStop ==
    \A p \in ProgramsOf("error") :
        source = p.src
            => /\ status # "running"
               /\ Finished
                    => (status = "returned" /\ exit_code < 0 /\ captured_output = <<>>)

\* C17: run returns a zero or positive code only as the program's own exit
\* value, that is from a step that dispatches LEV or EXIT; every other end of
\* a run (a bounds violation, pc leaving the text, an unknown opcode, a
\* division by zero, the cycle ceiling) returns a negative code.
C17_NonNegativeIsExitValue ==
    [][(status = "running" /\ status' = "returned" /\ exit_code' >= 0)
           => (Dispatching(LEV) \/ Dispatching(EXIT))]_vars

(***************************************************************************)
(* Properties of the lexer.                                                *)
(***************************************************************************)
\* C18: every call of next() leaves the cursor pos strictly greater than it
\* was, or reports the end of the source: token = 0 with pos at the end.
\* This holds for every byte sequence: comments, preprocessor lines,
\* malformed numbers, unexpected bytes.
C18_AdvanceMovesCursor ==
    [][status = "ready" => (pos' > pos \/ (token' = 0 /\ pos' = Len(src)))]_vars

\* A call of next() has skipped a preprocessor line and returned the
\* unexpected byte @ after it as the token.
C18_Witness ==
    src = <<35, 10, 64>> /\ status = "ready" /\ pos = 3 /\ token = 64 /\ line = 2

\* C19: the hexadecimal, octal and decimal forms of an integer lex to the
\* same Number token with the same token_val: 0x1A and 26 and 032 give 26,
\* 0xFF gives 255, 010 gives 8.
C19_NumberForms ==
    \A l \in Literals :
        (l.kind = "number" /\ src = l.src /\ pos = Len(src) /\ token # 0)
            => (token = TokenType_Num /\ token_val = l.value)

\* The index in s of the quote that closes the string literal whose body
\* starts at index i, 0 if there is none: a byte after a backslash is part of
\* the body.
RECURSIVE ClosingQuote(_, _)
ClosingQuote(s, i) ==
    IF i > Len(s) THEN 0
    ELSE IF s[i] = 34 THEN i
    ELSE IF s[i] = 92 THEN ClosingQuote(s, i + 2)
    ELSE ClosingQuote(s, i + 1)

\* The bytes a string literal's body denotes: \n, \t, \r and \0 are decoded,
\* any other escaped byte stands for itself.
RECURSIVE StringBytes(_)
StringBytes(body) ==
    IF body = <<>> THEN <<>>
    ELSE IF body[1] = 92 /\ Len(body) >= 2
    THEN << CASE body[2] = 110 -> 10
              [] body[2] = 116 -> 9
              [] body[2] = 114 -> 13
              [] body[2] = 48 -> 0
              [] OTHER -> body[2] >> \o StringBytes(SubSeq(body, 3, Len(body)))
    ELSE <<body[1]>> \o StringBytes(Tail(body))

\* The call of next() lexes the string literal that opens at index open of
\* src and closes at index close.
StringLexed(open, close) ==
    /\ status' = "ready"
    /\ pos' = close
    /\ token' = TokenType_Num
    /\ token_val' = Len(data)
    /\ data' = data \o StringBytes(SubSeq(src, open + 1, close - 1)) \o <<0>>
    /\ Len(data') = Len(data) + Len(StringBytes(SubSeq(src, open + 1, close - 1))) + 1

\* The next token of src starts at index open with a quote, and the literal
\* is terminated.
StringAhead(open) ==
    /\ status = "ready"
    /\ open <= Len(src)
    /\ src[open] = 34
    /\ ClosingQuote(src, open + 1) # 0

\* C20: lexing a terminated string literal of n bytes appends exactly n+1
\* words to the data segment, the literal's bytes in order with the escapes
\* decoded and then 0, leaves the earlier data words unchanged and yields a
\* Number token whose token_val is the offset of the first appended word.
C20_StringLiteralData ==
    [][StringAhead(SkipBlanks(Compiler).pos + 1)
         => StringLexed(SkipBlanks(Compiler).pos + 1,
                        ClosingQuote(src, SkipBlanks(Compiler).pos + 2))]_vars

\* The second literal of  "a\n" "\tb\\"  was lexed after the first: the data
\* segment holds a, newline, 0, tab, b, backslash, 0 and token_val is 3.
C20_Witness ==
    /\ src = <<34, 97, 92, 110, 34, 32, 34, 92, 116, 98, 92, 92, 34>>
    /\ pos = Len(src)
    /\ token = TokenType_Num
    /\ token_val = 3
    /\ data = <<97, 10, 0, 9, 98, 92, 0>>

\* The source opens with a block comment, a string literal or a character
\* literal that is never closed.
UnterminatedAhead ==
    /\ Len(src) >= 2
    /\ \/ /\ src[1] = 47
          /\ src[2] = 42
          /\ \A i \in 3..(Len(src) - 1) : ~(src[i] = 42 /\ src[i + 1] = 47)
       \/ src[1] = 34 /\ ClosingQuote(src, 2) = 0
       \/ src[1] = 39 /\ \A i \in 2..Len(src) : src[i] # 39

\* C21: an unterminated block comment, string literal or character literal
\* is a lexical error: next() returns no token from such a source, neither
\* one built from the bytes inside the construct nor the end of the source.
C21_UnterminatedIsError ==
    (UnterminatedAhead /\ pos > 0) => status = "exited"

\* C22: sizeof of a type compiles to IMM 1 for char and to IMM 4 for int and
\* for every pointer type, with result type INT: the text compiled for the
\* initialiser of `int g = sizeof(T);` is IMM and the size of T.
C22_SizeofType ==
    \A p \in ProgramsOf("sizeof") :
        (source = p.src /\ status # "ready")
            => (status # "exited" /\ SubSeq(text, 1, 2) = <<IMM, p.value>>)

\* program() has finished on the compiled source.
ProgramFinished == status \in {"running", "returned"} /\ src # <<>>

\* C23: after program() has finished, the value of every symbol of class Fun,
\* main included, is an index inside the text segment, and the word of the
\* text there is ENT.
C23_FunctionEntryIsEnter ==
    ProgramFinished
        => \A i \in 1..Len(symbols) :
               symbols[i].class = TokenType_Fun
                   => /\ symbols[i].value >= 0
                      /\ symbols[i].value < Len(text)
                      /\ text[symbols[i].value + 1] = ENT

(***************************************************************************)
(* Properties of the parser of function definitions.                       *)
(***************************************************************************)
\* The indices, from i on, of the words of the text t that are opcodes: an
\* opcode that takes an operand is followed by one operand word.
RECURSIVE InstructionStarts(_, _)
InstructionStarts(t, i) ==
    IF i >= Len(t) THEN {}
    ELSE {i} \cup InstructionStarts(t, i + (IF t[i + 1] \in OperandOps THEN 2 ELSE 1))

\* C24: in the text of finished function definitions the operand of every
\* JMP, BZ and BNZ is the index of an opcode word inside the text segment,
\* also when the branch leads to the end of the function's last statement.
C24_BranchTargets ==
    status = "ready"
        => \A i \in InstructionStarts(text, 0) :
               (text[i + 1] \in {JMP, BZ, BNZ} /\ i + 2 <= Len(text))
                   => text[i + 2] \in InstructionStarts(text, 0)

Primitives ==
    { <<<<112, 114, 105, 110, 116, 102>>, PRINTF>>,
      <<<<109, 97, 108, 108, 111, 99>>, MALLOC>>,
      <<<<109, 101, 109, 115, 101, 116>>, MSET>>,
      <<<<109, 101, 109, 99, 109, 112>>, MCMP>>,
      <<<<111, 112, 101, 110>>, OPEN>>,
      <<<<114, 101, 97, 100>>, READ>>,
      <<<<99, 108, 111, 115, 101>>, CLOS>>,
      <<<<101, 120, 105, 116>>, EXIT>> }

\* C26: the symbol table that program() works on holds each system primitive
\* with class Sys and with the opcode that implements it as value.
C26_PrimitivesInstalled ==
    ProgramFinished
        => \A b \in Primitives :
               \E i \in 1..Len(symbols) :
                   /\ symbols[i].name = b[1]
                   /\ symbols[i].class = TokenType_Sys
                   /\ symbols[i].value = b[2]

\* C27: the parameters and locals of a function are bindings of that
\* function only: once its definition has ended, no symbol of class Loc is
\* left for a later function to resolve a name to.
C27_LocalsEndWithFunction ==
    status = "ready" => \A i \in 1..Len(symbols) : symbols[i].class # TokenType_Loc

(***************************************************************************)
(* More properties of run.                                                 *)
(***************************************************************************)
\* C28: no step of run, the one that ends it included, clears or truncates
\* the captured output: what PRINTF appended is still in captured_output,
\* which get_captured_output returns, after run has returned with whatever
\* exit code.
C28_OutputKept ==
    [][status = "running"
           => /\ Len(captured_output') >= Len(captured_output)
              /\ SubSeq(captured_output', 1, Len(captured_output)) = captured_output]_vars

\* A run that printed `hi` has returned -1 for an unknown opcode, and the
\* output is still there.
C28_Witness ==
    /\ text = <<PUSH, PRINTF, MALLOC>>
    /\ status = "returned"
    /\ exit_code = -1
    /\ captured_output = <<104, 105>>

\* C29: a function body that does not end in a return statement behaves as
\* if it ended with `return 0;`: a main whose body is empty, or holds a
\* declaration or an empty statement only, exits with code 0.
C29_ImplicitReturn ==
    \A p \in ProgramsOf("empty") :
        (source = p.src /\ Finished) => (status = "returned" /\ exit_code = 0)

\* Every JSR of the text calls a function that opens its frame: the operand
\* is the index of an ENT.
CalleesEnter ==
    \A i \in InstructionStarts(text, 0) :
        text[i + 1] = JSR
            => /\ i + 2 <= Len(text)
               /\ text[i + 2] \in InstructionStarts(text, 0)
               /\ text[text[i + 2] + 1] = ENT

\* C30: the LEV that closes the frame of a function called by the JSR at
\* index i continues at index i + 2: the pc it restores is the return pc that
\* the call pushed, also when the caller has a frame of its own.
C30_LeaveReturnsToCaller ==
    [][(Dispatching(LEV) /\ LevGuard /\ CalleesEnter /\ calls # <<>> /\ frames # <<>>)
           => (status' = "running" /\ pc' = calls[Len(calls)])]_vars

(***************************************************************************)
(* Properties of the frame layout of compiled functions.                   *)
(***************************************************************************)
\* C31: in a function with argc parameters that returns its parameter k
\* (counted from 1 at the left), the code for the parameter is LEA with the
\* operand argc - k + 2: an address above bp, where the caller's pushes are,
\* and not the slots of the saved bp and the return pc.
C31_ParameterAddress ==
    \A p \in ProgramsOf("param") :
        (src = p.src /\ status = "ready" /\ text # <<>>)
            => SubSeq(text, 1, 4) = <<ENT, 0, LEA, p.value>>

\* C32: in a function that declares locals and returns one of them, ENT
\* reserves a slot for every local and the local's address, bp plus the
\* operand of its LEA, is below bp and strictly above the sp that ENT leaves
\* (bp minus ENT's operand): inside the region the ENT reserved, and so none
\* of the words at bp + 1 and above (saved bp, return pc, parameters).
C32_LocalsInFrame ==
    \A p \in ProgramsOf("local") :
        (src = p.src /\ status = "ready" /\ text # <<>>)
            => /\ Len(text) >= 4
               /\ text[1] = ENT
               /\ text[2] >= p.value
               /\ text[3] = LEA
               /\ text[4] < 0
               /\ text[4] > 0 - text[2]

(***************************************************************************)
(* Properties of compiled functions when they run.                         *)
(***************************************************************************)
\* run is about to execute the LEV of the `return e;` that is the body of the
\* function whose frame the ENT at index 0 opened.
AtReturn ==
    /\ status = "running"
    /\ Len(frames) = 1
    /\ pc >= 0
    /\ pc < TextLen
    /\ TextAt(pc) = LEV

\* C33: the code for `-e` computes 0 - e.  When a function whose body is
\* `return -e;` reaches the LEV of the return, the accumulator holds the
\* negation of the value of e, and sp is what ENT left, as before the
\* expression.
C33_UnaryMinus ==
    \A p \in ProgramsOf("minus") :
        (src = p.src /\ AtReturn)
            => /\ ax = p.value
               /\ sp = frames[1][1] - 1 - text[2]

(***************************************************************************)
(* More properties of the lexer.                                           *)
(***************************************************************************)
\* C34: a call of next() that finds the cursor on a `-` that is not followed
\* by a second `-` returns the minus token and moves the cursor past that one
\* byte, whatever follows it: the sign is never made part of a number, so
\* `x-1` is Id, `-`, Num 1 and no Num token has a negative token_val.
C34_MinusIsOperator ==
    [][(/\ status = "ready"
        /\ SrcIs(Compiler, pos, 45)
        /\ ~SrcIs(Compiler, pos + 1, 45))
           => /\ status' = "ready"
              /\ token' = 45
              /\ pos' = pos + 1]_vars

(***************************************************************************)
(* Division by zero.                                                       *)
(***************************************************************************)
\* C35: DIV or MOD dispatched with 0 in the accumulator is a runtime error:
\* run returns a negative exit code, and the instruction leaves sp, the
\* accumulator and every word of the stack as they were.
C35_DivisionByZero ==
    [][((Dispatching(DIV) \/ Dispatching(MOD)) /\ ax = 0)
           => /\ status' = "returned"
              /\ exit_code' < 0
              /\ sp' = sp
              /\ ax' = ax
              /\ stack' = stack]_vars

\* 5 / 0 was dispatched with the dividend on the stack: run has returned -1
\* with the dividend still there.
C35_Witness ==
    /\ text = <<IMM, 5, PUSH, IMM, 0, DIV, EXIT>>
    /\ status = "returned"
    /\ exit_code = -1
    /\ cycle = 4
    /\ ax = 0
    /\ sp = POOL_SIZE - 4
    /\ stack[POOL_SIZE - 3] = 5

(***************************************************************************)
(* Global variables.                                                       *)
(***************************************************************************)
\* C36: the global variables of a program have offsets inside the data
\* segment, and two of them never have the same offset, so a store to one
\* does not change another.
C36_GlobalsDistinct ==
    \A p \in ProgramsOf("global") :
        (source = p.src /\ ProgramFinished)
            => \A i \in 1..Len(symbols) :
                   symbols[i].class = TokenType_Glo
                       => /\ symbols[i].value >= 0
                          /\ symbols[i].value < Len(data)
                          /\ \A j \in 1..Len(symbols) :
                                 (j # i /\ symbols[j].class = TokenType_Glo)
                                     => symbols[j].value # symbols[i].value

(***************************************************************************)
(* compile_and_run on a reused instance.                                   *)
(***************************************************************************)
\* C37: the result of compile_and_run depends on the source only: whenever a
\* call has returned, on a new instance or on one that earlier calls have
\* used, the exit code and the captured output are the ones the source gives
\* on a new instance.
C37_ReuseDeterministic ==
    \A p \in ProgramsOf("reuse") :
        (source = p.src /\ status = "returned")
            => (exit_code = p.value /\ captured_output = p.out)

\* C38: the code of an expression statement is stack-neutral.  When a
\* function whose body is one expression statement (a prefix or postfix
\* increment, an assignment, a call, a binary operation) reaches the LEV of
\* its implicit return, sp is what ENT left: every PUSH of the statement was
\* matched by one pop and every store popped an address pushed for it.
C38_StatementStackNeutral ==
    \A p \in ProgramsOf("statement") :
        (src = p.src /\ AtReturn) => sp = frames[1][1] - 1 - text[2]

\* C39: between calls of next() the line counter is 1 plus the number of
\* newline bytes before the cursor, wherever they are: between tokens, at the
\* end of line comments and preprocessor lines, inside block comments and
\* inside string and character literals.
C39_LineCounter ==
    status = "ready"
        => line = 1 + Cardinality({i \in 1..pos : i <= Len(src) /\ src[i] = 10})

====
